---------------------------- MODULE Spec2Model ----------------------------
(***************************************************************************)
(* A model of src/app.py, the UP dropout dashboard: one Streamlit script   *)
(* that is re-run on every user interaction.  Each action below is one     *)
(* run of the script: the interaction that triggers it, the widgets the    *)
(* run evaluates, the SQL text it builds by string interpolation, the      *)
(* answer of the query engine to that text, and what the run renders.      *)
(*                                                                         *)
(* Text is modelled as a sequence of atoms (a word, a quote, a comma ...)  *)
(* so that building a query and reading it back are different operations.  *)
(***************************************************************************)
EXTENDS Integers, Sequences, FiniteSets, TLC

(***************************************************************************)
(* Bounds of the model.                                                    *)
(***************************************************************************)
MaxRecords == 2      \* rows of the CSV
MaxSelected == 2     \* values chosen in one multi-select
MaxGenders == 11     \* distinct gender spellings in a file
MaxEdited == 1       \* report widgets holding a non-default value
MaxGroups == 11      \* districts of a ranking file
MaxBlocks == 6       \* blocks of a district, schools of a block of such a file
MaxReportRows == 101 \* rows of a file whose report is longer than its preview
MaxScoreRows == 5001 \* records of a block on the scorecard

(***************************************************************************)
(* Text.                                                                   *)
(***************************************************************************)
Q == "'"
DQ == "\""
CommaSp == ", "
LParen == "("
RParen == ")"
KwIn == " IN "
KwAnd == " AND "
KwOr == " OR "
KwEq == " = "
KwNe == " != "
KwNotNull == " IS NOT NULL"
KwTrue == "1=1"

Str(w) == <<w>>

\* body(v) for the value v of x, x being evaluated once
With(x, body(_)) == CHOOSE res \in {body(v) : v \in {x}} : TRUE

\* sep.join(items) of Python
RECURSIVE Join(_, _)
Join(sep, items) ==
    IF items = <<>> THEN <<>>
    ELSE IF Len(items) = 1 THEN items[1]
    ELSE items[1] \o sep \o Join(sep, Tail(items))

Range(s) == {s[i] : i \in DOMAIN s}

\* str.upper() on the words of the model
UpperWord(w) ==
    CASE w = "f" -> "F"
      [] w = "m" -> "M"
      [] w = "Female" -> "FEMALE"
      [] w = "female" -> "FEMALE"
      [] w = "Male" -> "MALE"
      [] w = "male" -> "MALE"
      [] w = "Girl" -> "GIRL"
      [] w = "Boy" -> "BOY"
      [] w = "Other" -> "OTHER"
      [] w = "Na" -> "NA"
      [] OTHER -> w

Upper(s) == [i \in DOMAIN s |-> UpperWord(s[i])]

(***************************************************************************)
(* The CSV: columns, rows, datasets.                                       *)
(***************************************************************************)
ColYear == "Academic Year"
ColDistrict == "District Name"
ColBlock == "Block Name"
ColSchool == "Last School Name"
ColGender == "Gender"
ColLevel == "Education Level"
ColCategory == "School Category"
ColManagement == "School Management"

Columns == {ColYear, ColDistrict, ColBlock, ColSchool, ColGender, ColLevel,
            ColCategory, ColManagement}

Row(y, d, b, s, g, l, c, m) ==
    (ColYear :> y) @@ (ColDistrict :> d) @@ (ColBlock :> b) @@ (ColSchool :> s)
    @@ (ColGender :> g) @@ (ColLevel :> l) @@ (ColCategory :> c)
    @@ (ColManagement :> m)

Y2324 == Str("2023-24")
Y2425 == Str("2024-25")
Primary == Str("Primary (1-5)")
UpperPrimary == Str("Upper Primary (6-8)")
Secondary == Str("Secondary (9-10)")
SrSecondary == Str("Sr. Secondary (11-12)")

\* district names that occur in the file; the last two contain quotes
Agra == Str("Agra")
Lucknow == Str("Lucknow")
DistrictTwoNames == <<"Agra", Q, CommaSp, Q, "Lucknow">>
DistrictOrGender == <<"Agra", Q, RParen, KwOr, DQ, ColGender, DQ, KwIn,
                      LParen, Q, "F">>

RowValues ==
    { Row(Y2324, Agra, Str("Bah"), Str("PS Bah"), Str("F"), Primary,
          Str("Primary"), Str("Government")),
      Row(Y2324, Lucknow, Str("Mal"), Str("UPS Mal"), Str("M"), UpperPrimary,
          Str("Upper Primary"), Str("Private")),
      Row(Y2425, Agra, Str("Bah"), Str("PS Bah"), Str("FEMALE"), Secondary,
          Str("Primary"), Str("Government")),
      Row(Y2425, DistrictOrGender, Str("Bah"), Str("PS Bah"), Str("F"), Primary,
          Str("Primary"), Str("Government")),
      Row(Y2324, DistrictTwoNames, Str("Mal"), Str("UPS Mal"), Str("M"), Primary,
          Str("Primary"), Str("Government")) }

\* every CSV of at most MaxRecords rows
Datasets == UNION {[1..n -> RowValues] : n \in 0..MaxRecords}

\* the i-th name of a family of names
GroupName(i) == <<"G", ToString(i)>>

\* the number of rows of the i-th group of a ranking file: the first two
\* groups tie, the others are one apart
GroupSize(i) == IF i = 1 THEN 1 ELSE i - 1

\* a row of the i-th district (and school category), of the i-th block of
\* Agra, or of the i-th school of the block Bah of Agra
RankRow(kind, i) ==
    Row(Y2324,
        IF kind = "district" THEN GroupName(i) ELSE Agra,
        IF kind = "block" THEN GroupName(i) ELSE Str("Bah"),
        IF kind = "school" THEN GroupName(i) ELSE Str("PS Bah"),
        Str("F"), Primary,
        IF kind = "district" THEN GroupName(i) ELSE Str("Primary"),
        Str("Government"))

\* the file of k groups of that kind, group after group
RECURSIVE RankFile(_, _)
RankFile(kind, k) ==
    IF k = 0 THEN <<>>
    ELSE RankFile(kind, k - 1) \o [j \in 1..GroupSize(k) |-> RankRow(kind, k)]

\* three rows of Agra with gender FEMALE, two of Lucknow with gender MALE
Example5 ==
    [i \in 1..5 |->
        IF i <= 3
        THEN Row(Y2324, Agra, Str("Bah"), Str("PS Bah"), Str("FEMALE"), Primary,
                 Str("Primary"), Str("Government"))
        ELSE Row(Y2324, Lucknow, Str("Mal"), Str("UPS Mal"), Str("MALE"),
                 UpperPrimary, Str("Upper Primary"), Str("Private"))]

\* files with more groups than a ranking keeps
RankDatasets ==
    {RankFile("district", k) : k \in 0..MaxGroups}
    \cup {RankFile(kind, k) : kind \in {"block", "school"}, k \in 1..MaxBlocks}
    \cup {Example5}

\* rows of two schools of one block, one of them of another year and of a
\* third gender, and of a school of the same name in a block of another
\* district
SchoolRows ==
    << Row(Y2324, Agra, Str("Bah"), Str("PS A"), Str("F"), Primary,
           Str("Primary"), Str("Government")),
       Row(Y2425, Agra, Str("Bah"), Str("PS B"), Str("Other"),
           Str("Pre-Primary"), Str("Upper Primary"), Str("Private")),
       Row(Y2324, Lucknow, Str("Mal"), Str("PS A"), Str("M"), UpperPrimary,
           Str("Primary"), Str("Government")) >>

\* a school name that holds quotes
SchoolAndGender == <<"PS A", Q, KwAnd, DQ, ColGender, DQ, KwEq, Q, "M">>

\* every CSV that holds some of these rows, in this order, and one whose
\* only record is of the school whose name holds quotes
SchoolDatasets ==
    {SelectSeq(SchoolRows, LAMBDA r : r \in S) : S \in SUBSET Range(SchoolRows)}
    \cup {<<Row(Y2324, Agra, Str("Bah"), SchoolAndGender, Str("F"), Primary,
               Str("Primary"), Str("Government"))>>}

\* the columns of df_edu other than 'Education Level'
available_years == <<Y2324, Y2425>>

(***************************************************************************)
(* The query engine: reading SQL text.                                     *)
(***************************************************************************)
Symbols == {CommaSp, LParen, RParen, KwIn, KwAnd, KwOr, KwEq, KwNe, KwNotNull,
            KwTrue}

\* where the reader is after an atom: outside any quotes ("out"), inside a
\* string literal ("lit") or inside a quoted identifier ("id")
Step(mode, atom) ==
    IF mode = "out"
    THEN (IF atom = Q THEN "lit" ELSE IF atom = DQ THEN "id" ELSE "out")
    ELSE IF mode = "lit" THEN (IF atom = Q THEN "out" ELSE "lit")
    ELSE (IF atom = DQ THEN "out" ELSE "id")

\* where the reader is after each of the atoms s[lo..hi], entering in m0
RECURSIVE Modes(_, _, _, _)
Modes(s, lo, hi, m0) ==
    IF lo > hi THEN <<>>
    ELSE IF lo = hi THEN <<Step(m0, s[lo])>>
    ELSE With(Modes(s, lo, (lo + hi) \div 2, m0), LAMBDA left :
             left \o Modes(s, (lo + hi) \div 2 + 1, hi, left[Len(left)]))

\* the tokens of a text, or ok = FALSE when it is no SQL. A quote that
\* closes and the same quote right after it are one quote of the value
\* (the doubled quote of SQL).
Lex(s) ==
    With(Modes(s, 1, Len(s), "out"), LAMBDA after :
        LET n == Len(s)
            before(i) == IF i = 1 THEN "out" ELSE after[i - 1]
            Opens(i) == before(i) = "out" /\ after[i] # "out"
            Closes(i) == before(i) # "out" /\ after[i] = "out"
            Glued(i) == /\ 1 < i /\ i <= n
                        /\ Opens(i) /\ Closes(i - 1) /\ s[i] = s[i - 1]
            Bare(i) == before(i) = "out" /\ after[i] = "out"
            Idx == [i \in 1..n |-> i]
            starts == SelectSeq(Idx, LAMBDA i : Bare(i) \/ (Opens(i) /\ ~Glued(i)))
            ends == SelectSeq(Idx, LAMBDA j : Closes(j) /\ ~Glued(j + 1))
            End(i) == ends[CHOOSE r \in DOMAIN ends :
                               ends[r] > i /\ (r = 1 \/ ends[r - 1] < i)]
            Inner(i) == SelectSeq([q \in 1..(End(i) - i - 1) |-> i + q],
                                  LAMBDA p : ~Opens(p))
            Token(i) ==
                IF Bare(i) THEN [t |-> "sym", v |-> <<s[i]>>]
                ELSE [t |-> IF s[i] = Q THEN "lit" ELSE "col",
                      v |-> [q \in DOMAIN Inner(i) |-> s[Inner(i)[q]]]]
            ok == /\ n > 0 => after[n] = "out"
                  /\ \A i \in 1..n : Bare(i) => s[i] \in Symbols
        IN [ok |-> ok,
            toks |-> IF ok THEN [k \in DOMAIN starts |-> Token(starts[k])]
                     ELSE <<>>])

IsSym(toks, i, a) == i <= Len(toks) /\ toks[i].t = "sym" /\ toks[i].v = <<a>>
IsLit(toks, i) == i <= Len(toks) /\ toks[i].t = "lit"
IsCol(toks, i) ==
    i <= Len(toks) /\ toks[i].t = "col" /\ Len(toks[i].v) = 1
    /\ toks[i].v[1] \in Columns

Fail == [ok |-> FALSE, v |-> FALSE, i |-> 0]

\* 'a', 'b', ... ) : the literals up to the closing parenthesis
RECURSIVE ParseList(_, _, _)
ParseList(toks, i0, acc0) ==
    With(<<i0, acc0>>, LAMBDA a :
        LET i == a[1]
            acc == a[2]
        IN IF ~IsLit(toks, i) THEN [ok |-> FALSE, v |-> acc, i |-> 0]
           ELSE IF IsSym(toks, i + 1, RParen)
                THEN [ok |-> TRUE, v |-> acc \cup {toks[i].v}, i |-> i + 2]
                ELSE IF IsSym(toks, i + 1, CommaSp)
                     THEN ParseList(toks, i + 2, acc \cup {toks[i].v})
                     ELSE [ok |-> FALSE, v |-> acc, i |-> 0])

\* the WHERE grammar, evaluated on one row while it is read:
\*   or   ::= and { OR and }      and ::= prim { AND prim }
\*   prim ::= ( or ) | 1=1 | col IN ( list ) | col = lit | col != lit
\*          | col IS NOT NULL
RECURSIVE ParseOr(_, _, _)
RECURSIVE ParseOrRest(_, _, _, _)
RECURSIVE ParseAnd(_, _, _)
RECURSIVE ParseAndRest(_, _, _, _)
RECURSIVE ParsePrim(_, _, _)

ParsePrim(toks, i0, row) ==
    With(i0, LAMBDA i :
        IF IsSym(toks, i, LParen)
        THEN With(ParseOr(toks, i + 1, row), LAMBDA r :
                 IF r.ok /\ IsSym(toks, r.i, RParen)
                 THEN [ok |-> TRUE, v |-> r.v, i |-> r.i + 1]
                 ELSE Fail)
        ELSE IF IsSym(toks, i, KwTrue) THEN [ok |-> TRUE, v |-> TRUE, i |-> i + 1]
        ELSE IF IsCol(toks, i)
        THEN LET val == row[toks[i].v[1]]
             IN IF IsSym(toks, i + 1, KwIn) /\ IsSym(toks, i + 2, LParen)
                THEN With(ParseList(toks, i + 3, {}), LAMBDA l :
                         IF l.ok THEN [ok |-> TRUE, v |-> val \in l.v, i |-> l.i]
                         ELSE Fail)
                ELSE IF IsSym(toks, i + 1, KwEq) /\ IsLit(toks, i + 2)
                THEN [ok |-> TRUE, v |-> val = toks[i + 2].v, i |-> i + 3]
                ELSE IF IsSym(toks, i + 1, KwNe) /\ IsLit(toks, i + 2)
                THEN [ok |-> TRUE, v |-> val # toks[i + 2].v, i |-> i + 3]
                ELSE IF IsSym(toks, i + 1, KwNotNull)
                THEN [ok |-> TRUE, v |-> TRUE, i |-> i + 2]
                ELSE Fail
        ELSE Fail)

ParseAndRest(toks, i0, row, left0) ==
    With(<<i0, left0>>, LAMBDA a :
        IF IsSym(toks, a[1], KwAnd)
        THEN With(ParsePrim(toks, a[1] + 1, row), LAMBDA r :
                 IF r.ok THEN ParseAndRest(toks, r.i, row, a[2] /\ r.v) ELSE Fail)
        ELSE [ok |-> TRUE, v |-> a[2], i |-> a[1]])

ParseAnd(toks, i, row) ==
    With(ParsePrim(toks, i, row), LAMBDA r :
        IF r.ok THEN ParseAndRest(toks, r.i, row, r.v) ELSE Fail)

ParseOrRest(toks, i0, row, left0) ==
    With(<<i0, left0>>, LAMBDA a :
        IF IsSym(toks, a[1], KwOr)
        THEN With(ParseAnd(toks, a[1] + 1, row), LAMBDA r :
                 IF r.ok THEN ParseOrRest(toks, r.i, row, a[2] \/ r.v) ELSE Fail)
        ELSE [ok |-> TRUE, v |-> a[2], i |-> a[1]])

ParseOr(toks, i, row) ==
    With(ParseAnd(toks, i, row), LAMBDA r :
        IF r.ok THEN ParseOrRest(toks, r.i, row, r.v) ELSE Fail)

AnyRow == CHOOSE r \in RowValues : TRUE

\* does the engine accept the text as a WHERE clause (else it raises)
WhereOk(text) ==
    With(Lex(text), LAMBDA lx :
        lx.ok /\ With(ParseOr(lx.toks, 1, AnyRow), LAMBDA r :
                     r.ok /\ r.i = Len(lx.toks) + 1))

\* SELECT * FROM csv WHERE text, for a text the engine accepts: the rows
\* kept, in file order
SelectWhere(rows, text) ==
    With(Lex(text).toks, LAMBDA toks :
        LET Keep(row) == ParseOr(toks, 1, row).v IN SelectSeq(rows, Keep))

(***************************************************************************)
(* Aggregates of the engine and their conversion by pandas.                *)
(***************************************************************************)
All == Str("All")

\* "col" = 'value' as the f-strings write it
EqCondition(col, value) == <<DQ, col, DQ, KwEq, Q>> \o value \o <<Q>>

\* COUNT(*)
CountRows(rows) == Len(rows)

\* SUM(CASE WHEN "col" = 'value' THEN 1 ELSE 0 END): NULL (<<>>) over no rows
SumCase(rows, col, value) ==
    LET Is(row) == row[col] = value
    IN IF rows = <<>> THEN <<>> ELSE <<Len(SelectSeq(rows, Is))>>

IsNull(x) == x = <<>>

\* int(x) of Python on a value read from the data frame: raises on NaN
IntRaises(x) == IsNull(x)
IntOf(x) == x[1]

\* the distinct values of a column
DistinctValues(rows, col) == {r[col] : r \in Range(rows)}

\* COUNT(DISTINCT "col")
CountDistinct(rows, col) == Cardinality(DistinctValues(rows, col))

\* COUNT(DISTINCT col) in the place of COUNT(*): each group counts once
GroupCount_Distinct(rows, col) ==
    {[key |-> k, count |-> 1] : k \in DistinctValues(rows, col)}

\* SELECT "col", COUNT(*) ... GROUP BY "col": one group per distinct value
GroupCount(rows, col) ==
    {[key |-> k,
      count |-> Cardinality({i \in DOMAIN rows : rows[i][col] = k})] :
        k \in DistinctValues(rows, col)}

\* the enumerations of a finite set
Orders(S) ==
    {p \in [1..Cardinality(S) -> S] : \A i, j \in DOMAIN p : p[i] = p[j] => i = j}

\* the groups of the extreme count first, in each of their orders, then the rest
RECURSIVE OrderFrom(_, _)
OrderFrom(groups, desc) ==
    IF groups = {} THEN {<<>>}
    ELSE With(CHOOSE g \in groups :
                  \A h \in groups : IF desc THEN g.count >= h.count
                                     ELSE g.count <= h.count, LAMBDA first :
         With({g \in groups : g.count = first.count}, LAMBDA tied :
             {p \o rest : p \in Orders(tied),
                          rest \in OrderFrom(groups \ tied, desc)}))

\* ORDER BY count [DESC]: the query names no second key, so the engine may
\* return groups of equal count in any order
OrderByCount(groups, desc) == OrderFrom(groups, desc)

Min(a, b) == IF a < b THEN a ELSE b

\* the whole answer, whatever the limit
HeadN_NoLimit(s, n) == s

\* LIMIT n and DataFrame.head(n)
HeadN(s, n) == SubSeq(s, 1, Min(n, Len(s)))

\* DataFrame.tail(n)
TailN(s, n) == SubSeq(s, Len(s) - Min(n, Len(s)) + 1, Len(s))

\* df.iloc[::-1]
Reverse(s) == [i \in DOMAIN s |-> s[Len(s) + 1 - i]]

\* round(): the integer nearest to a / b, a half going to the even neighbour
\* (the binary representation error of the float quotient is left out)
RECURSIVE RoundHalfEven(_, _)
RoundHalfEven(a, b) ==
    IF b < 0 THEN RoundHalfEven(0 - a, 0 - b)
    ELSE With(<<a \div b, a % b>>, LAMBDA qr :
             IF 2 * qr[2] < b THEN qr[1]
             ELSE IF 2 * qr[2] > b THEN qr[1] + 1
             ELSE IF qr[1] % 2 = 0 THEN qr[1] ELSE qr[1] + 1)

\* a float that is the quotient of two integers
Ratio(n, d) == [num |-> n, den |-> d]

\* round(x / y * 100, 2) for an integer x and a float y, in hundredths of a
\* percent; the division raises ZeroDivisionError when y is 0
Percent(x, y) ==
    IF y.num = 0 THEN [raised |-> TRUE, value |-> 0]
    ELSE [raised |-> FALSE, value |-> RoundHalfEven(x * y.den * 10000, y.num)]

\* the rate computed with the guard left out
calculate_dropout_rate_Unguarded(dropouts, total_enrolled) ==
    Percent(dropouts, total_enrolled)

\* calculate_dropout_rate(dropouts, total_enrolled) with total_enrolled given
calculate_dropout_rate(dropouts, total_enrolled) ==
    IF total_enrolled.num > 0 THEN Percent(dropouts, total_enrolled)
    ELSE [raised |-> FALSE, value |-> 0]

\* get_total_enrollment() when reading df_edu fails
FallbackEnrollment == 20000000

\* TOTAL_ENROLLMENT / len(all_districts) if len(all_districts) > 0 else 1
district_enrollment(enrollment, n) ==
    IF n > 0 THEN Ratio(enrollment, n) ELSE Ratio(1, 1)

\* all_districts with its 'Dropout Rate (%)' column
WithRates(all_districts, enrollment) ==
    [i \in DOMAIN all_districts |->
        [key |-> all_districts[i].key, count |-> all_districts[i].count,
         rate |-> calculate_dropout_rate(
                      all_districts[i].count,
                      district_enrollment(enrollment, Len(all_districts)))]]

\* the lambda raised on an element of the column
RateRaised(rated) == \E i \in DOMAIN rated : rated[i].rate.raised

\* report_df[available_selected_cols]: the row cut to the chosen columns
\* (of which the model's rows carry those in Columns)
Project(row, cols) == [c \in Range(cols) \cap Columns |-> row[c]]

\* the cell of a row under a column (the model keeps no values for the
\* columns that no query reads)
Cell(row, col) == IF col \in DOMAIN row THEN row[col] ELSE <<>>

\* DataFrame.to_csv(index=False): the header line, then one line per record
to_csv(df, cols) ==
    <<cols>> \o [i \in DOMAIN df |-> [k \in DOMAIN cols |-> Cell(df[i], cols[k])]]

(***************************************************************************)
(* Start-up: gender detection (cached for the life of the process).        *)
(***************************************************************************)
GenderLimit == 10

\* next((g for g in gender_vals if str(g).upper() in names), default)
RECURSIVE FirstMatch(_, _, _)
FirstMatch(vals, names, default) ==
    IF vals = <<>> THEN default
    ELSE IF Upper(Head(vals)) \in names THEN Head(vals)
    ELSE FirstMatch(Tail(vals), names, default)

FemaleNames == {Str("FEMALE"), Str("F"), Str("GIRL")}
MaleNames == {Str("MALE"), Str("M"), Str("BOY")}

\* detect_gender_values(), given the answer of the DISTINCT ... LIMIT 10
\* query (raised = the query failed)
detect_gender_values(gender_vals, raised) ==
    IF raised THEN <<Str("FEMALE"), Str("MALE")>>
    ELSE <<FirstMatch(gender_vals, FemaleNames, Str("FEMALE")),
           FirstMatch(gender_vals, MaleNames, Str("MALE"))>>

\* some order of a set
RECURSIVE SetToSeq(_)
SetToSeq(S) ==
    IF S = {} THEN <<>>
    ELSE With(CHOOSE x \in S : TRUE, LAMBDA x : <<x>> \o SetToSeq(S \ {x}))

\* the values of a set that come first among those whose upper-cased form
\* is in names: any one of them, or none when there is none
Firsts(K, names) ==
    IF \E g \in K : Upper(g) \in names
    THEN {<<g>> : g \in {g \in K : Upper(g) \in names}}
    ELSE {<<>>}

\* SELECT DISTINCT "Gender" FROM csv LIMIT 10: GenderLimit of the distinct
\* values (all of them when there are fewer), in an order the engine
\* chooses. Of that order the detection reads only which female name and
\* which male name come first: one order is kept for each such choice.
DistinctGenderAnswers(rows) ==
    With(DistinctValues(rows, ColGender), LAMBDA V :
        UNION {{f \o m \o SetToSeq(K \ Range(f \o m)) :
                   f \in Firsts(K, FemaleNames), m \in Firsts(K, MaleNames)} :
               K \in {K \in SUBSET V :
                        Cardinality(K) = Min(Cardinality(V), GenderLimit)}})

\* the gender spellings of the files used to exercise the detection
GenderLiterals ==
    {Str("F"), Str("Female"), Str("M"), Str("m"), Str("MALE"), Str("Male"),
     Str("male"), Str("Boy"), Str("BOY"), Str("Other"), Str("T"), Str("Na")}

\* files with one row for each of up to MaxGenders gender spellings
GenderDatasets ==
    {With(SetToSeq(S), LAMBDA gs :
        [i \in DOMAIN gs |->
            Row(Y2324, Agra, Str("Bah"), Str("PS Bah"), gs[i], Primary,
                Str("Primary"), Str("Government"))]) :
     S \in {S \in SUBSET GenderLiterals : Cardinality(S) <= MaxGenders}}

(***************************************************************************)
(* Home view (active_tab = 0).                                             *)
(***************************************************************************)
HighRiskThreshold == 100
RankN == 3
TopN == 10

Levels == <<Primary, UpperPrimary, Secondary, SrSecondary>>
ZeroLevels == [i \in 1..4 |-> 0]

\* blocks (with their district) of more than HighRiskThreshold rows
HighRiskBlocks(rows) ==
    LET keys == {<<r[ColBlock], r[ColDistrict]>> : r \in Range(rows)}
        N(k) == Cardinality({i \in DOMAIN rows :
                               <<rows[i][ColBlock], rows[i][ColDistrict]>> = k})
    IN Cardinality({k \in keys : N(k) > HighRiskThreshold})

\* the rows a query with this WHERE text answers with, or raised
\* (text = <<>>: the query has no WHERE clause)
Query(rows_all, text) ==
    IF text = <<>> THEN [where |-> text, raised |-> FALSE, rows |-> rows_all]
    ELSE IF WhereOk(text)
         THEN [where |-> text, raised |-> FALSE, rows |-> SelectWhere(rows_all, text)]
         ELSE [where |-> text, raised |-> TRUE, rows |-> <<>>]

\* COUNT(*), the two gender sums with these literals and the four level sums
\* of one aggregate query
Aggregates(rows, female, male) ==
    [total |-> CountRows(rows),
     girls |-> SumCase(rows, ColGender, female),
     boys |-> SumCase(rows, ColGender, male),
     lev |-> [i \in 1..4 |-> SumCase(rows, ColLevel, Levels[i])]]

\* the year branch keeps the zeros unless year_stats has a total > 0
YearFallback_Never(selected_year, total) == FALSE

YearFallback(selected_year, total) == selected_year # All /\ ~(total > 0)

\* a query binds when every column it names is a column of the file; one
\* that does not bind raises
Binds(columns, used) == used \subseteq columns

\* the columns the year condition of a query names
YearColumn(selected_year) == IF selected_year = All THEN {} ELSE {ColYear}

\* the names the except branch of the facts block assigns
ExceptAssigns ==
    {"total_dropouts", "total_girls", "total_boys", "overall_dropout_rate",
     "girls_dropout_rate", "boys_dropout_rate", "edu_levels",
     "high_risk_blocks_count", "is_data_pending"}

\* the names the try has assigned once the fixed rates are set
RatesAssign ==
    {"overall_dropout_rate", "girls_dropout_rate", "boys_dropout_rate",
     "primary_dropout_rate", "upper_primary_dropout_rate",
     "secondary_dropout_rate", "sr_secondary_dropout_rate", "is_data_pending"}

\* the names the count and rate cards read
CardsRead ==
    {"total_dropouts", "total_girls", "total_boys", "edu_levels",
     "is_data_pending", "overall_dropout_rate", "primary_dropout_rate",
     "upper_primary_dropout_rate", "secondary_dropout_rate",
     "sr_secondary_dropout_rate"}

\* the 'Dropout Facts' block: all_query / year_query, the fixed rates and
\* the high-risk query, all inside one try
HomeFacts(rows_all, columns, selected_year) ==
    With(Query(rows_all, IF selected_year = All THEN <<>>
                         ELSE EqCondition(ColYear, selected_year)), LAMBDA q :
    With(Aggregates(q.rows, Str("FEMALE"), Str("MALE")), LAMBDA ag :
    With([fallback |-> YearFallback(selected_year, ag.total),
          \* int() of a NULL sum
          nullSum |-> IntRaises(ag.girls) \/ IntRaises(ag.boys)
                      \/ \E i \in 1..4 : IntRaises(ag.lev[i]),
          unbound |-> ~Binds(columns, {ColGender, ColLevel}
                                      \cup YearColumn(selected_year))],
         LAMBDA f :
        LET \* both branches convert every aggregate with int(); the year
            \* branch only when it does not fall back to the zeros
            early == q.raised \/ f.unbound \/ (~f.fallback /\ f.nullSum)
            \* the high-risk query comes after the fixed rates are assigned
            late == ~early /\ ~Binds(columns, {ColBlock, ColDistrict})
            error == early \/ late
            zero == error \/ f.fallback
            \* the names the cards read that neither the try, up to where
            \* it raised, nor the except branch has assigned
            undefined == IF early THEN CardsRead \ ExceptAssigns
                         ELSE IF late THEN CardsRead \ (ExceptAssigns \cup RatesAssign)
                         ELSE {}
        IN [error |-> error,
            \* the run ends with a NameError at the first card that reads
            \* a name that is not assigned
            undefined |-> undefined,
            crashed |-> undefined # {},
            total_dropouts |-> IF zero THEN 0 ELSE ag.total,
            total_girls |-> IF zero THEN 0 ELSE IntOf(ag.girls),
            total_boys |-> IF zero THEN 0 ELSE IntOf(ag.boys),
            edu_levels |-> IF zero THEN ZeroLevels
                           ELSE [i \in 1..4 |-> IntOf(ag.lev[i])],
            high_risk_blocks_count |-> IF error THEN 0 ELSE HighRiskBlocks(q.rows),
            where |-> q.where])))

\* gender_query and category_query: the year condition is written always
HomeYearRows(rows_all, selected_year) ==
    Query(rows_all, EqCondition(ColYear, selected_year))

\* district_performance_query and the top-10 query: the year condition is
\* written unless selected_year is "All"
HomeRankRows(rows_all, selected_year) ==
    Query(rows_all, IF selected_year = All THEN <<>>
                    ELSE EqCondition(ColYear, selected_year))

HomeNotRendered ==
    [rendered |-> FALSE, selected_year |-> <<>>, facts_error |-> FALSE,
     crashed |-> FALSE, undefined |-> {},
     total_dropouts |-> 0, total_girls |-> 0, total_boys |-> 0,
     edu_levels |-> ZeroLevels, high_risk_blocks_count |-> 0,
     gender_chart |-> "none", gender_data |-> {},
     level_chart |-> "none",
     category_chart |-> "none", category_data |-> <<>>,
     rank_error |-> FALSE, all_districts |-> <<>>,
     best_districts |-> <<>>, worst_districts |-> <<>>,
     top_chart |-> "none", district_counts |-> <<>>,
     year_conditions |-> <<>>]

\* what one run of the Home view draws after the rate cards, for one order
\* of each grouped answer
HomeSections(yr, rk, columns, enrollment, category_data, ranked, district_counts) ==
    LET genderError == yr.raised \/ ~Binds(columns, {ColGender, ColYear})
        categoryError == yr.raised \/ ~Binds(columns, {ColCategory, ColYear})
        rkUnbound == ~Binds(columns, {ColDistrict}
                                     \cup (IF rk.where = <<>> THEN {} ELSE {ColYear}))
        all_districts == WithRates(ranked, enrollment)
        rankError == rk.raised \/ rkUnbound \/ RateRaised(all_districts)
        topError == rk.raised \/ rkUnbound
    IN [gender_chart |-> IF genderError THEN "error" ELSE "chart",
        gender_data |-> IF genderError THEN {} ELSE GroupCount(yr.rows, ColGender),
        \* level_query reads FROM df, a table that does not exist
        level_chart |-> "error",
        category_chart |-> IF categoryError THEN "error" ELSE "chart",
        category_data |-> IF categoryError THEN <<>> ELSE HeadN(category_data, TopN),
        rank_error |-> rankError,
        all_districts |-> IF rankError THEN <<>> ELSE all_districts,
        best_districts |->
            IF rankError THEN <<>> ELSE HeadN(all_districts, RankN),
        worst_districts |->
            IF rankError THEN <<>> ELSE Reverse(TailN(all_districts, RankN)),
        top_chart |-> IF topError THEN "error"
                      ELSE IF district_counts # <<>> THEN "chart" ELSE "no_data",
        district_counts |-> IF topError THEN <<>> ELSE HeadN(district_counts, TopN)]

\* the sections of a run that ended at the rate cards
NoSections ==
    [gender_chart |-> "none", gender_data |-> {}, level_chart |-> "none",
     category_chart |-> "none", category_data |-> <<>>,
     rank_error |-> FALSE, all_districts |-> <<>>,
     best_districts |-> <<>>, worst_districts |-> <<>>,
     top_chart |-> "none", district_counts |-> <<>>]

\* the outcome of a run of the Home view: its cards, its sections and the
\* WHERE text of every query it made that has one
HomeOutcome(selected_year, facts, sec, wheres) ==
    [rendered |-> TRUE, selected_year |-> selected_year,
     facts_error |-> facts.error,
     crashed |-> facts.crashed, undefined |-> facts.undefined,
     total_dropouts |-> facts.total_dropouts,
     total_girls |-> facts.total_girls,
     total_boys |-> facts.total_boys,
     edu_levels |-> facts.edu_levels,
     high_risk_blocks_count |-> facts.high_risk_blocks_count,
     gender_chart |-> sec.gender_chart, gender_data |-> sec.gender_data,
     level_chart |-> sec.level_chart,
     category_chart |-> sec.category_chart, category_data |-> sec.category_data,
     rank_error |-> sec.rank_error, all_districts |-> sec.all_districts,
     best_districts |-> sec.best_districts,
     worst_districts |-> sec.worst_districts,
     top_chart |-> sec.top_chart, district_counts |-> sec.district_counts,
     year_conditions |-> wheres]

\* the outcomes of one run of the Home view with the year selector at
\* selected_year (one per order the engine may return tied groups in)
HomeRun(rows_all, columns, enrollment, selected_year) ==
    With(<<HomeFacts(rows_all, columns, selected_year),
           HomeYearRows(rows_all, selected_year),
           HomeRankRows(rows_all, selected_year)>>, LAMBDA t :
    LET facts == t[1]
        yr == t[2]
        rk == t[3]
        \* the WHERE text of the facts and high-risk queries, then of the
        \* gender, level and category queries, then of the ranking and top-10
        factsWheres == IF facts.where = <<>> THEN <<>>
                       ELSE <<facts.where, facts.where>>
        rankWheres == IF rk.where = <<>> THEN <<>> ELSE <<rk.where, rk.where>>
    IN IF facts.crashed
       THEN {HomeOutcome(selected_year, facts, NoSections,
                         IF facts.where = <<>> THEN <<>> ELSE <<facts.where>>)}
       ELSE {With(HomeSections(yr, rk, columns, enrollment, category_data,
                               ranked, district_counts), LAMBDA sec :
                  HomeOutcome(selected_year, facts, sec,
                              factsWheres \o <<yr.where, yr.where, yr.where>>
                              \o rankWheres)) :
                category_data \in OrderByCount(GroupCount(yr.rows, ColCategory), TRUE),
                ranked \in OrderByCount(GroupCount(rk.rows, ColDistrict), FALSE),
                district_counts \in OrderByCount(GroupCount(rk.rows, ColDistrict), TRUE)})

\* the selector's default: "2023-24" when it is a year of df_edu, else "All"
HomeDefaultYear ==
    IF Y2324 \in Range(available_years) THEN Y2324 ELSE All

HomeYearOptions == <<All>> \o available_years

(***************************************************************************)
(* widgets                                                                 *)
(***************************************************************************)
\* a selectbox keeps its value while the value is one of its options and
\* falls back to its first option otherwise
Selectbox(value, options, first) == IF value \in options THEN value ELSE first

(***************************************************************************)
(* District view (active_tab = 1).                                         *)
(***************************************************************************)
SelectDistrict == Str("-- Select District --")
BlockTopN == 5

DistrictDefaultYear ==
    IF Y2324 \in Range(available_years) THEN Y2324 ELSE available_years[1]

\* SELECT DISTINCT "District Name" FROM csv ORDER BY "District Name"
districts_list(rows_all) == DistinctValues(rows_all, ColDistrict)

\* district_query and what the run makes of its answer, inside the try
DistrictStats(rows_all, district_year, selected_district) ==
    With(Query(rows_all, EqCondition(ColDistrict, selected_district)
                         \o <<KwAnd>> \o EqCondition(ColYear, district_year)),
         LAMBDA q :
    With(Aggregates(q.rows, Str("FEMALE"), Str("MALE")), LAMBDA ag :
        LET \* int(district_stats['female_dropouts']) on the NULL of an empty SUM
            intRaised == ~q.raised /\ (IntRaises(ag.girls) \/ IntRaises(ag.boys))
            \* female_dropouts / total_dropouts * 100
            divRaised == ~q.raised /\ ~intRaised /\ ag.total = 0
            noStats == q.raised \/ intRaised
        IN [error |-> q.raised \/ intRaised \/ divRaised,
            raised |-> IF q.raised THEN "query"
                       ELSE IF intRaised THEN "int"
                       ELSE IF divRaised THEN "division" ELSE "none",
            rows |-> q.rows,
            total_dropouts |-> IF noStats THEN 0 ELSE ag.total,
            female_dropouts |-> IF noStats THEN 0 ELSE IntOf(ag.girls),
            male_dropouts |-> IF noStats THEN 0 ELSE IntOf(ag.boys),
            total_blocks |-> IF noStats THEN 0 ELSE CountDistinct(q.rows, ColBlock),
            total_schools |-> IF noStats THEN 0
                              ELSE CountDistinct(q.rows, ColSchool)]))

DistrictNotRendered ==
    [rendered |-> FALSE, district_year |-> <<>>, selected_district |-> <<>>,
     analysis |-> "none", raised |-> "none",
     total_dropouts |-> 0, female_dropouts |-> 0, male_dropouts |-> 0,
     total_blocks |-> 0, total_schools |-> 0,
     block_data |-> <<>>, top_5 |-> <<>>, bottom_5 |-> <<>>,
     block_table |-> <<>>]

\* the 'Detailed Block-wise Data Table': block_data with its 'Rank' and its
\* 'Dropout %' column, (dropout_count / total_dropouts * 100).round(2), in
\* hundredths of a percent
BlockTable(block_data, total_dropouts) ==
    [i \in DOMAIN block_data |->
        [key |-> block_data[i].key, count |-> block_data[i].count,
         rank |-> i,
         dropout_pct |-> RoundHalfEven(block_data[i].count * 10000,
                                       total_dropouts)]]

\* the outcomes of one run of the District view
DistrictRun(rows_all, district_year, district_wanted) ==
    With(Selectbox(district_wanted, districts_list(rows_all), SelectDistrict),
         LAMBDA selected_district :
    With(DistrictStats(rows_all, district_year, selected_district), LAMBDA st :
    LET shown == selected_district # SelectDistrict /\ ~st.error
    IN {[rendered |-> TRUE, district_year |-> district_year,
         selected_district |-> selected_district,
         analysis |-> IF selected_district = SelectDistrict THEN "none"
                      ELSE IF st.error THEN "error" ELSE "shown",
         raised |-> IF selected_district = SelectDistrict THEN "none" ELSE st.raised,
         total_dropouts |-> IF shown THEN st.total_dropouts ELSE 0,
         female_dropouts |-> IF shown THEN st.female_dropouts ELSE 0,
         male_dropouts |-> IF shown THEN st.male_dropouts ELSE 0,
         total_blocks |-> IF shown THEN st.total_blocks ELSE 0,
         total_schools |-> IF shown THEN st.total_schools ELSE 0,
         block_data |-> IF shown THEN block_data ELSE <<>>,
         top_5 |-> IF shown THEN HeadN(block_data, BlockTopN) ELSE <<>>,
         bottom_5 |-> IF shown THEN TailN(block_data, BlockTopN) ELSE <<>>,
         block_table |-> IF shown THEN BlockTable(block_data, st.total_dropouts)
                         ELSE <<>>] :
        block_data \in OrderByCount(GroupCount(st.rows, ColBlock), TRUE)}))

(***************************************************************************)
(* Block view (active_tab = 2).                                            *)
(***************************************************************************)
Select == Str("Select")
SchoolTopN == 5

\* cond1 AND cond2 AND ... as the f-strings and " AND ".join write it
AndAll(conds) == Join(<<KwAnd>>, conds)

\* "col" IS NOT NULL AND "col" != ''
NotBlank(col) == <<DQ, col, DQ, KwNotNull, KwAnd, DQ, col, DQ, KwNe, Q, Q>>

\* the year condition of a query that writes it unless the year is "All"
YearConds(year) == IF year = All THEN <<>> ELSE <<EqCondition(ColYear, year)>>

BlockNotRendered ==
    [rendered |-> FALSE, crashed |-> FALSE, block_year |-> <<>>,
     block_selected_district |-> <<>>, block_selected_block |-> <<>>,
     analysis |-> "none", total_students |-> 0, girls_count |-> 0,
     boys_count |-> 0, school_count |-> 0, edu_levels |-> ZeroLevels,
     overall_score |-> 0,
     top_schools |-> <<>>, bottom_schools |-> <<>>]

\* overall_score of the 'Block Performance Scorecard'
overall_score(total_students) ==
    IF total_students < 1000 THEN 90
    ELSE IF total_students < 3000 THEN 70
    ELSE IF total_students < 5000 THEN 50
    ELSE 30

\* block_query and school_count_query and the int() conversions, in the try
BlockStats(rows_all, female, male, year, d, b) ==
    With(<<Query(rows_all, AndAll(<<EqCondition(ColDistrict, d),
                                    EqCondition(ColBlock, b)>> \o YearConds(year))),
           Query(rows_all, AndAll(<<EqCondition(ColDistrict, d),
                                    EqCondition(ColBlock, b)>> \o YearConds(year)
                                  \o <<NotBlank(ColSchool)>>))>>, LAMBDA q :
    With(Aggregates(q[1].rows, female, male), LAMBDA ag :
        LET error == q[1].raised \/ q[2].raised
                     \/ IntRaises(ag.girls) \/ IntRaises(ag.boys)
                     \/ \E i \in 1..4 : IntRaises(ag.lev[i])
        IN [error |-> error,
            total_students |-> IF error THEN 0 ELSE ag.total,
            girls_count |-> IF error THEN 0 ELSE IntOf(ag.girls),
            boys_count |-> IF error THEN 0 ELSE IntOf(ag.boys),
            edu_levels |-> IF error THEN ZeroLevels
                           ELSE [i \in 1..4 |-> IntOf(ag.lev[i])],
            school_count |-> IF error THEN 0
                             ELSE CountDistinct(q[2].rows, ColSchool),
            \* top_schools_query and bottom_schools_query have the WHERE of
            \* school_count_query
            school_rows |-> IF error THEN <<>> ELSE q[2].rows]))

\* one run of the Block view up to the school counts
BlockRun(rows_all, female, male, block_year, district_wanted, block_wanted) ==
    With(Query(rows_all, AndAll(YearConds(block_year))), LAMBDA dq :
    With(Selectbox(district_wanted, DistinctValues(dq.rows, ColDistrict), Select),
         LAMBDA d :
    \* blocks_query is built and run outside any try
    With(IF d = Select THEN Query(<<>>, <<>>)
         ELSE Query(rows_all, AndAll(<<EqCondition(ColDistrict, d)>>
                                     \o YearConds(block_year))), LAMBDA bq :
    With(IF d = Select \/ bq.raised THEN Select
         ELSE Selectbox(block_wanted, DistinctValues(bq.rows, ColBlock), Select),
         LAMBDA b :
    With(IF d # Select /\ b # Select
         THEN BlockStats(rows_all, female, male, block_year, d, b)
         ELSE [error |-> FALSE, total_students |-> 0, girls_count |-> 0,
               boys_count |-> 0, school_count |-> 0,
               edu_levels |-> ZeroLevels, school_rows |-> <<>>],
         LAMBDA st :
        [rendered |-> TRUE, crashed |-> bq.raised, block_year |-> block_year,
         block_selected_district |-> d, block_selected_block |-> b,
         analysis |-> IF d = Select \/ b = Select THEN "none"
                      ELSE IF st.error THEN "error" ELSE "shown",
         total_students |-> st.total_students,
         girls_count |-> st.girls_count,
         boys_count |-> st.boys_count,
         edu_levels |-> st.edu_levels,
         school_count |-> st.school_count,
         school_rows |-> st.school_rows])))))

\* the outcomes of one run of the Block view: the 'Top 5 Schools' and
\* 'Bottom 5 Schools' lists are the first SchoolTopN groups of the schools in
\* descending and in ascending order of count
BlockRuns(rows_all, female, male, block_year, district_wanted, block_wanted) ==
    With(BlockRun(rows_all, female, male, block_year, district_wanted,
                  block_wanted), LAMBDA r :
        {[rendered |-> r.rendered, crashed |-> r.crashed,
          block_year |-> r.block_year,
          block_selected_district |-> r.block_selected_district,
          block_selected_block |-> r.block_selected_block,
          analysis |-> r.analysis, total_students |-> r.total_students,
          girls_count |-> r.girls_count, boys_count |-> r.boys_count,
          school_count |-> r.school_count, edu_levels |-> r.edu_levels,
          overall_score |-> IF r.analysis = "shown"
                            THEN overall_score(r.total_students) ELSE 0,
          top_schools |-> HeadN(top, SchoolTopN),
          bottom_schools |-> HeadN(bottom, SchoolTopN)] :
             top \in OrderByCount(GroupCount(r.school_rows, ColSchool), TRUE),
             bottom \in OrderByCount(GroupCount(r.school_rows, ColSchool), FALSE)})

(***************************************************************************)
(* School view (active_tab = 3).                                           *)
(***************************************************************************)
SelectSchool == Str("-- Select School --")

SchoolNotRendered ==
    [rendered |-> FALSE, crashed |-> FALSE, school_year |-> <<>>,
     school_selected_district |-> <<>>, school_selected_block |-> <<>>,
     selected_school |-> <<>>, detail |-> "none", school_df |-> <<>>,
     total_dropouts |-> 0, girls_dropouts |-> 0, boys_dropouts |-> 0,
     edu_levels |-> ZeroLevels, block_ranking_df |-> <<>>,
     school_rank_in_block |-> 0, total_schools_in_block |-> 0,
     search_text |-> <<>>, show_all_cols |-> FALSE, table |-> "none",
     display_df |-> <<>>, csv |-> <<>>, csv_full |-> <<>>]

\* the filters list of the School view: year, district, block, each unless "All"
SchoolFilters(year, d, b) ==
    YearConds(year)
    \o (IF d = All THEN <<>> ELSE <<EqCondition(ColDistrict, d)>>)
    \o (IF b = All THEN <<>> ELSE <<EqCondition(ColBlock, b)>>)

\* where_clause of schools_query
SchoolsWhere(year, d, b) ==
    (IF SchoolFilters(year, d, b) = <<>> THEN <<KwTrue>>
     ELSE AndAll(SchoolFilters(year, d, b)))
    \o <<KwAnd>> \o NotBlank(ColSchool)

\* where_clause of school_data_query
SchoolDataWhere(school, year, d, b) ==
    AndAll(<<EqCondition(ColSchool, school)>> \o SchoolFilters(year, d, b))

\* the WHERE of block_ranking_query: the block of the first record of
\* school_df, the year unless it is "All", and a school name that is not blank
BlockRankingWhere(block_name, year) ==
    AndAll(<<EqCondition(ColBlock, block_name)>> \o YearConds(year)
           \o <<NotBlank(ColSchool)>>)

\* school_data_query, the metrics of the selected school and
\* block_ranking_query, in the try
SchoolData(rows_all, female, male, school, year, d, b) ==
    With(Query(rows_all, SchoolDataWhere(school, year, d, b)), LAMBDA q :
    With(IF q.raised \/ q.rows = <<>> THEN Query(<<>>, <<>>)
         ELSE Query(rows_all, BlockRankingWhere(q.rows[1][ColBlock], year)),
         LAMBDA rq :
        LET IsGirl(row) == row[ColGender] = female
            IsBoy(row) == row[ColGender] = male
            shown == ~q.raised /\ ~rq.raised /\ q.rows # <<>>
        IN [detail |-> IF q.raised \/ rq.raised THEN "error"
                       ELSE IF q.rows = <<>> THEN "no_data" ELSE "shown",
            school_df |-> q.rows,
            total_dropouts |-> Len(q.rows),
            girls_dropouts |-> Len(SelectSeq(q.rows, IsGirl)),
            boys_dropouts |-> Len(SelectSeq(q.rows, IsBoy)),
            edu_levels |-> [i \in 1..4 |->
                              Len(SelectSeq(q.rows, LAMBDA row :
                                                row[ColLevel] = Levels[i]))],
            ranking_groups |-> IF shown THEN GroupCount(rq.rows, ColSchool)
                               ELSE {}]))

\* the atom that stands for any one atom of a text in a pattern
AnyChar == "."

\* texts typed into the search box: none, a letter in lower case, any one
\* atom, a word no record has, and a parenthesis that does not pair
SearchTexts == {<<>>, <<"f">>, <<AnyChar>>, <<"zz">>, <<LParen>>}

\* display_cols of the records table
display_cols(show_all_cols) ==
    IF show_all_cols
    THEN <<"Student Name", "Father Name", "Mother Name", "Mobile No.",
           "Last Class", "Gender", "Education Level", "School Category",
           "Student Status", "Student Sub Status", "Academic Year",
           "Aadhaar No.", "Student PEN", "Remarks">>
    ELSE <<"Student Name", "Father Name", "Mother Name", "Mobile No.",
           "Last Class", "Gender", "Education Level", "Academic Year">>

\* re.compile of the search text raises when its parentheses do not pair
PatternRaises(search_text) ==
    LET Opens(k) == Cardinality({i \in 1..k : search_text[i] = LParen})
        Closes(k) == Cardinality({i \in 1..k : search_text[i] = RParen})
    IN \/ \E k \in DOMAIN search_text : Closes(k) > Opens(k)
       \/ Opens(Len(search_text)) # Closes(Len(search_text))

\* str.contains(search_text, case=False): the text of the cell holds a run
\* of atoms that the pattern matches, letter case apart; the pattern is a
\* regular expression, its parentheses group and match nothing themselves
str_contains(cell, search_text) ==
    LET e == SelectSeq(search_text, LAMBDA a : a \notin {LParen, RParen})
    IN \E i \in 1..(Len(cell) - Len(e) + 1) :
          \A k \in DOMAIN e :
              \/ e[k] = AnyChar
              \/ UpperWord(e[k]) = UpperWord(cell[i + k - 1])

\* the records table of a school with its two downloads: the search box,
\* the mask over the displayed columns, 'Showing k of n', to_csv of both
SchoolTable(school_df, columns, search_text, show_all_cols) ==
    With(SelectSeq(display_cols(show_all_cols), LAMBDA c : c \in columns),
         LAMBDA available_cols :
        LET Shown(row) ==
                \E k \in DOMAIN available_cols :
                    str_contains(Cell(row, available_cols[k]), search_text)
            all == [i \in DOMAIN school_df |->
                       Project(school_df[i], available_cols)]
            display_df == IF search_text # <<>> THEN SelectSeq(all, Shown)
                          ELSE all
        IN IF available_cols = <<>>
           THEN [table |-> "unavailable", display_df |-> <<>>, csv |-> <<>>,
                 csv_full |-> <<>>]
           ELSE IF search_text # <<>> /\ PatternRaises(search_text)
           THEN [table |-> "error", display_df |-> <<>>, csv |-> <<>>,
                 csv_full |-> <<>>]
           ELSE [table |-> "shown", display_df |-> display_df,
                 csv |-> to_csv(display_df, available_cols),
                 csv_full |-> to_csv(all, available_cols)])

\* one run of the School view up to the metrics of the selected school
SchoolRun(rows_all, female, male, school_year, district_wanted, block_wanted, school_wanted) ==
    With(Query(rows_all, AndAll(YearConds(school_year))), LAMBDA dq :
    With(Selectbox(district_wanted, DistinctValues(dq.rows, ColDistrict), All),
         LAMBDA d :
    \* blocks_query and schools_query are built and run outside any try
    With(Query(rows_all,
               AndAll(SchoolFilters(school_year, d, All)
                      \o <<NotBlank(ColBlock)>>)), LAMBDA bq :
    With(IF bq.raised THEN All
         ELSE Selectbox(block_wanted, DistinctValues(bq.rows, ColBlock), All),
         LAMBDA b :
    With(IF bq.raised THEN bq
         ELSE Query(rows_all, SchoolsWhere(school_year, d, b)), LAMBDA sq :
    With(IF sq.raised THEN SelectSchool
         ELSE Selectbox(school_wanted, DistinctValues(sq.rows, ColSchool),
                        SelectSchool), LAMBDA school :
    With(IF school # SelectSchool
         THEN SchoolData(rows_all, female, male, school, school_year, d, b)
         ELSE [detail |-> "none", school_df |-> <<>>, total_dropouts |-> 0,
               girls_dropouts |-> 0, boys_dropouts |-> 0,
               edu_levels |-> ZeroLevels, ranking_groups |-> {}], LAMBDA sd :
        [rendered |-> TRUE, crashed |-> sq.raised, school_year |-> school_year,
         school_selected_district |-> d, school_selected_block |-> b,
         selected_school |-> school, detail |-> sd.detail,
         school_df |-> sd.school_df,
         total_dropouts |-> sd.total_dropouts,
         girls_dropouts |-> sd.girls_dropouts,
         boys_dropouts |-> sd.boys_dropouts,
         edu_levels |-> sd.edu_levels,
         ranking_groups |-> sd.ranking_groups])))))))

\* the position of the school in block_ranking_df, 0 standing for "N/A"
RankOf(block_ranking_df, school_name) ==
    IF \E i \in DOMAIN block_ranking_df : block_ranking_df[i].key = school_name
    THEN CHOOSE i \in DOMAIN block_ranking_df :
             block_ranking_df[i].key = school_name
    ELSE 0

\* the outcomes of one run of the School view: the block ranking in one of
\* the orders the engine may answer with, then the records table under the
\* search text and the 'Show All Columns' box (widgets that keep their value
\* only while the run draws them)
SchoolRuns(rows_all, columns, female, male, school_year, district_wanted, block_wanted, school_wanted, search_wanted, show_all_wanted) ==
    With(SchoolRun(rows_all, female, male, school_year, district_wanted,
                   block_wanted, school_wanted), LAMBDA r :
    With(IF r.detail = "shown"
         THEN SchoolTable(r.school_df, columns, search_wanted, show_all_wanted)
         ELSE [table |-> "none", display_df |-> <<>>, csv |-> <<>>,
               csv_full |-> <<>>], LAMBDA t :
        {[rendered |-> r.rendered, crashed |-> r.crashed,
          school_year |-> r.school_year,
          school_selected_district |-> r.school_selected_district,
          school_selected_block |-> r.school_selected_block,
          selected_school |-> r.selected_school, detail |-> r.detail,
          school_df |-> r.school_df, total_dropouts |-> r.total_dropouts,
          girls_dropouts |-> r.girls_dropouts,
          boys_dropouts |-> r.boys_dropouts, edu_levels |-> r.edu_levels,
          block_ranking_df |-> ranking,
          school_rank_in_block |-> RankOf(ranking, r.selected_school),
          total_schools_in_block |-> Len(ranking),
          search_text |-> IF r.detail = "shown" THEN search_wanted ELSE <<>>,
          show_all_cols |-> r.detail = "shown" /\ show_all_wanted,
          table |-> t.table, display_df |-> t.display_df, csv |-> t.csv,
          csv_full |-> t.csv_full] :
             ranking \in OrderByCount(r.ranking_groups, TRUE)}))

(***************************************************************************)
(* Downloads view: the custom report builder (active_tab = 4).             *)
(***************************************************************************)
all_columns ==
    <<"Student Name", "Father Name", "Mother Name", "Mobile No.", "Last Class",
      "Gender", "Education Level", "School Category", "School Management",
      "District Name", "Block Name", "Last School Name", "Academic Year",
      "Student Status", "Student Sub Status", "Aadhaar No.", "Student PEN",
      "Remarks">>

DefaultColumns ==
    <<"Student Name", "Father Name", "Mother Name", "Mobile No.", "Last Class",
      "Gender", "Education Level", "District Name", "Academic Year">>

\* the columns of the CSV
CsvColumns == Range(all_columns)

ReportFields ==
    {"years", "districts", "gender", "edu_level", "category", "management",
     "columns"}

\* the multi-selects at their defaults
ReportDefaults ==
    [years |-> IF available_years = <<>> THEN <<>> ELSE <<available_years[1]>>,
     districts |-> <<All>>, gender |-> <<All>>, edu_level |-> <<All>>,
     category |-> <<All>>, management |-> <<All>>, columns |-> DefaultColumns]

\* the options of each multi-select
ReportOptions(rows_all, female, male) ==
    [years |-> Range(available_years),
     districts |-> {All} \cup DistinctValues(rows_all, ColDistrict),
     gender |-> {All, female, male},
     edu_level |-> {All} \cup Range(Levels),
     category |-> {All} \cup DistinctValues(rows_all, ColCategory),
     management |-> {All} \cup DistinctValues(rows_all, ColManagement)]

\* the values a multi-select over these options can hold: up to MaxSelected
\* of them, in the order they were picked
Picks(options) ==
    UNION {{p \in [1..n -> options] :
              \A i, j \in 1..n : p[i] = p[j] => i = j} : n \in 0..MaxSelected}

\* the column selections tried
ColumnPicks == {DefaultColumns, <<>>, <<"Student Name">>, all_columns}

\* "col" IN ('v1', 'v2', ...) as the f-string and "', '".join write it
InCondition(col, values) ==
    <<DQ, col, DQ, KwIn, LParen, Q>> \o Join(<<Q, CommaSp, Q>>, values)
    \o <<Q, RParen>>

\* is the multi-select of a field with an "All" option a constraint
Constrains_IgnoringAll(selected) == selected # <<>>

Constrains(selected) == All \notin Range(selected) /\ selected # <<>>

\* is the year multi-select a constraint: if report_years
YearConstrains_Always(selected) == TRUE

YearConstrains(selected) == selected # <<>>

\* the conditions list of 'Generate Custom Report'
ReportConditions(sel) ==
    (IF YearConstrains(sel.years) THEN <<InCondition(ColYear, sel.years)>> ELSE <<>>)
    \o (IF Constrains(sel.districts)
        THEN <<InCondition(ColDistrict, sel.districts)>> ELSE <<>>)
    \o (IF Constrains(sel.gender)
        THEN <<InCondition(ColGender, sel.gender)>> ELSE <<>>)
    \o (IF Constrains(sel.edu_level)
        THEN <<InCondition(ColLevel, sel.edu_level)>> ELSE <<>>)
    \o (IF Constrains(sel.category)
        THEN <<InCondition(ColCategory, sel.category)>> ELSE <<>>)
    \o (IF Constrains(sel.management)
        THEN <<InCondition(ColManagement, sel.management)>> ELSE <<>>)

\* where_clause = " AND ".join(conditions) if conditions else "1=1"
WhereClause(conditions) ==
    IF conditions # <<>> THEN Join(<<KwAnd>>, conditions) ELSE <<KwTrue>>

PreviewLimit == 100

\* the first column the text names that the file does not have, if any: the
\* engine's error names that one column
Unbound(columns, text) ==
    With(Lex(text), LAMBDA lx :
        With(SelectSeq(lx.toks, LAMBDA tok :
                          /\ tok.t = "col" /\ Len(tok.v) = 1
                          /\ tok.v[1] \notin columns), LAMBDA missing :
            IF missing = <<>> THEN {} ELSE {missing[1].v[1]}))

\* the query on a file with these columns: it raises when its WHERE names a
\* column the file does not have
QueryOn(rows_all, columns, text) ==
    IF Unbound(columns, text) # {}
    THEN [where |-> text, raised |-> TRUE, rows |-> <<>>]
    ELSE Query(rows_all, text)

\* DataFrame.to_excel(writer, index=False, sheet_name='Dropout Report')
to_excel(df, cols) ==
    [sheet_name |-> "Dropout Report",
     cells |-> <<cols>> \o [i \in DOMAIN df |->
                              [k \in DOMAIN cols |-> Cell(df[i], cols[k])]]]

\* only the rows of the preview are serialized
to_json_Preview(df) == HeadN(df, PreviewLimit)

\* DataFrame.to_json(orient='records'): one object per record
to_json(df) == [i \in DOMAIN df |-> df[i]]

NoReport ==
    [generated |-> "none", conditions |-> <<>>, where_clause |-> <<>>,
     report_df |-> <<>>, columns |-> <<>>, filtered_report_df |-> <<>>,
     total_records |-> 0, girls_count |-> 0, boys_count |-> 0,
     unique_districts |-> 0, named |-> {},
     preview |-> <<>>, csv_data |-> <<>>, excel_data |-> <<>>,
     json_data |-> <<>>]

\* the preview and the three downloads of a report
ReportDownloads(filtered_report_df, cols) ==
    [preview |-> HeadN(filtered_report_df, PreviewLimit),
     csv_data |-> to_csv(filtered_report_df, cols),
     excel_data |-> to_excel(filtered_report_df, cols),
     json_data |-> to_json(filtered_report_df)]

\* the body of 'Generate Custom Report' on a file with these columns
GenerateReport(rows_all, columns, female, male, sel) ==
    With(ReportConditions(sel), LAMBDA conditions :
    With(QueryOn(rows_all, columns, WhereClause(conditions)), LAMBDA q :
    With(SelectSeq(sel.columns, LAMBDA c : c \in columns), LAMBDA cols :
    With(IF ~q.raised /\ cols # <<>>
         THEN [i \in DOMAIN q.rows |-> Project(q.rows[i], cols)]
         ELSE <<>>, LAMBDA filtered_report_df :
    With(IF ~q.raised /\ cols # <<>>
         THEN ReportDownloads(filtered_report_df, cols)
         ELSE [preview |-> <<>>, csv_data |-> <<>>, excel_data |-> <<>>,
               json_data |-> <<>>], LAMBDA dl :
        LET IsGirl(row) == row[ColGender] = female
            IsBoy(row) == row[ColGender] = male
            shown == ~q.raised /\ cols # <<>>
        IN [generated |-> IF q.raised THEN "error"
                          ELSE IF cols # <<>> THEN "report" ELSE "no_columns",
            conditions |-> conditions,
            where_clause |-> q.where,
            report_df |-> q.rows,
            columns |-> IF shown THEN cols ELSE <<>>,
            filtered_report_df |-> filtered_report_df,
            total_records |-> IF shown THEN Len(q.rows) ELSE 0,
            girls_count |-> IF shown /\ ColGender \in Range(cols)
                            THEN Len(SelectSeq(q.rows, IsGirl)) ELSE 0,
            boys_count |-> IF shown /\ ColGender \in Range(cols)
                           THEN Len(SelectSeq(q.rows, IsBoy)) ELSE 0,
            unique_districts |-> IF shown /\ ColDistrict \in Range(cols)
                                 THEN CountDistinct(q.rows, ColDistrict) ELSE 0,
            \* the columns the message of the run names: the engine's error
            \* names the first column it cannot bind, the 'No matching
            \* columns' warning and a report name none
            named |-> IF q.raised THEN Unbound(columns, q.where) ELSE {},
            preview |-> dl.preview,
            csv_data |-> dl.csv_data,
            excel_data |-> dl.excel_data,
            json_data |-> dl.json_data])))))

ReportNotRendered == [rendered |-> FALSE, sel |-> ReportDefaults, out |-> NoReport]

\* the report builder as a run draws it: the option queries of its
\* multi-selects are outside any try, and the run ends at the first that
\* names a column the file does not have
ReportBuilder(columns, v) ==
    IF Binds(columns, {ColDistrict, ColCategory, ColManagement}) THEN v
    ELSE ReportNotRendered

\* the number of report widgets that hold a value other than their default
Edited(sel) == Cardinality({f \in ReportFields : sel[f] # ReportDefaults[f]})

(***************************************************************************)
(* State.                                                                  *)
(***************************************************************************)
VARIABLES
    csv_exists,     \* os.path.exists(csv_file)
    download_cache, \* what st.cache_data holds for download_kaggle_dataset()
    downloaded,     \* the last run executed the body of download_kaggle_dataset
    stopped,        \* the last run ended at the st.stop() of the dataset check
    csv_columns,    \* the header of Master_UP_Dropout_Database.csv
    data,           \* the rows of Master_UP_Dropout_Database.csv
    TOTAL_ENROLLMENT, \* get_total_enrollment(), cached
    FEMALE_VALUE,   \* detected once, cached
    MALE_VALUE,
    active_tab,     \* st.session_state.active_tab
    home,           \* widgets and output of the Home view in the last run
    district,       \* ... of the District view
    block,          \* ... of the Block view
    school,         \* ... of the School view
    report          \* ... of the Downloads view

vars == <<csv_exists, download_cache, downloaded, stopped, csv_columns, data,
          TOTAL_ENROLLMENT, FEMALE_VALUE, MALE_VALUE, active_tab, home,
          district, block, school, report>>

\* the file, its content and the cached values of the process
process == <<csv_exists, download_cache, csv_columns, data, TOTAL_ENROLLMENT>>

\* the dataset check of a run that finds the file: nothing is downloaded
FileFound ==
    /\ csv_exists
    /\ downloaded' = FALSE
    /\ stopped' = FALSE
    /\ UNCHANGED process

\* the Home view is drawn whatever active_tab is
Draw_HomeAlways(tab, v) ==
    /\ FileFound
    /\ active_tab' = tab
    /\ home' = IF tab = 0 THEN v ELSE [HomeNotRendered EXCEPT !.rendered = TRUE]
    /\ district' = IF tab = 1 THEN v ELSE DistrictNotRendered
    /\ block' = IF tab = 2 THEN v ELSE BlockNotRendered
    /\ school' = IF tab = 3 THEN v ELSE SchoolNotRendered
    /\ report' = IF tab = 4 THEN v ELSE ReportNotRendered
    /\ UNCHANGED <<FEMALE_VALUE, MALE_VALUE>>

\* the end of a run that drew view tab with this outcome v; the widgets of
\* the other views were not drawn and lose their state
Draw(tab, v) ==
    /\ FileFound
    /\ active_tab' = tab
    /\ home' = IF tab = 0 THEN v ELSE HomeNotRendered
    /\ district' = IF tab = 1 THEN v ELSE DistrictNotRendered
    /\ block' = IF tab = 2 THEN v ELSE BlockNotRendered
    /\ school' = IF tab = 3 THEN v ELSE SchoolNotRendered
    /\ report' = IF tab = 4 THEN v ELSE ReportNotRendered
    /\ UNCHANGED <<FEMALE_VALUE, MALE_VALUE>>

\* 'active_tab' not in st.session_state
NoTab == -1

\* the type each of the five tab buttons is drawn with in a run that starts
\* with this active_tab and in which this button (NoTab: none) was clicked:
\* the loop draws button idx with the active_tab of that moment, and the
\* clicked button sets active_tab only after it has been drawn
tab_button_types(active, clicked) ==
    [idx \in 0..4 |->
        IF (IF clicked # NoTab /\ idx > clicked THEN clicked ELSE active) = idx
        THEN "primary" ELSE "secondary"]

\* a process is started and a session opened: the file is there or not (F),
\* with a header of the set C and the rows of a member of D, and the
\* enrollment read from df_edu is in E; the script has not run yet
Session(F, C, D, E) ==
    /\ csv_exists \in F
    /\ download_cache = "none"
    /\ downloaded = FALSE
    /\ stopped = FALSE
    /\ csv_columns \in C
    /\ data \in D
    /\ TOTAL_ENROLLMENT \in E
    /\ FEMALE_VALUE = <<>>
    /\ MALE_VALUE = <<>>
    /\ active_tab = NoTab
    /\ home = HomeNotRendered
    /\ district = DistrictNotRendered
    /\ block = BlockNotRendered
    /\ school = SchoolNotRendered
    /\ report = ReportNotRendered

\* a session on a file of the set D that is in place with its full header
Opened(D) == Session({TRUE}, {CsvColumns}, D, {FallbackEnrollment})

Init == Opened(Datasets)

\* download_kaggle_dataset() as the dataset check calls it: the cached
\* return value when there is one, else the body runs; it returns True
\* whether or not the archive held a file of the expected name in the
\* script's directory, and False when anything in it raised
DownloadOutcomes(cache) ==
    IF cache # "none"
    THEN {[cache |-> cache, ran |-> FALSE, exists |-> FALSE]}
    ELSE {[cache |-> "False", ran |-> TRUE, exists |-> FALSE],
          [cache |-> "True", ran |-> TRUE, exists |-> FALSE],
          [cache |-> "True", ran |-> TRUE, exists |-> TRUE]}

\* the rest of the first run of a session: the gender values are detected,
\* active_tab is set to 0 and Home is drawn
FirstDraw ==
    /\ \E gender_vals \in DistinctGenderAnswers(data) :
          \* the detection query names "Gender"; when it raises the defaults stay
          LET detected == detect_gender_values(gender_vals,
                                               ~Binds(csv_columns, {ColGender}))
          IN /\ FEMALE_VALUE' = detected[1]
             /\ MALE_VALUE' = detected[2]
    /\ active_tab' = 0
    /\ home' \in HomeRun(data, csv_columns, TOTAL_ENROLLMENT, HomeDefaultYear)
    /\ UNCHANGED <<district, block, school, report>>

\* a run of a session that has no active_tab yet: the dataset check, with
\* the download when the file is missing, and st.stop() when it still is
Startup ==
    /\ active_tab = NoTab
    /\ UNCHANGED <<csv_columns, data, TOTAL_ENROLLMENT>>
    /\ IF csv_exists
       THEN /\ downloaded' = FALSE
            /\ stopped' = FALSE
            /\ UNCHANGED <<csv_exists, download_cache>>
            /\ FirstDraw
       ELSE \E o \in DownloadOutcomes(download_cache) :
               /\ download_cache' = o.cache
               /\ downloaded' = o.ran
               /\ csv_exists' = o.exists
               /\ stopped' = ~o.exists
               /\ IF o.exists THEN FirstDraw
                  ELSE UNCHANGED <<FEMALE_VALUE, MALE_VALUE, active_tab, home,
                                   district, block, school, report>>

\* the outcomes of a run that draws view tab with the widgets as they are
\* (at their defaults when the view was not drawn in the run before)
Rerun(tab) ==
    CASE tab = 0 ->
           HomeRun(data, csv_columns, TOTAL_ENROLLMENT,
                   IF home.rendered THEN home.selected_year
                         ELSE HomeDefaultYear)
      [] tab = 1 ->
           DistrictRun(data,
                       IF district.rendered THEN district.district_year
                       ELSE DistrictDefaultYear,
                       IF district.rendered THEN district.selected_district
                       ELSE SelectDistrict)
      [] tab = 2 ->
           BlockRuns(data, FEMALE_VALUE, MALE_VALUE,
                     IF block.rendered THEN block.block_year ELSE All,
                     IF block.rendered THEN block.block_selected_district
                     ELSE Select,
                     IF block.rendered THEN block.block_selected_block
                     ELSE Select)
      [] tab = 3 ->
           SchoolRuns(data, csv_columns, FEMALE_VALUE, MALE_VALUE,
                      IF school.rendered THEN school.school_year ELSE All,
                      IF school.rendered THEN school.school_selected_district
                      ELSE All,
                      IF school.rendered THEN school.school_selected_block
                      ELSE All,
                      IF school.rendered THEN school.selected_school
                      ELSE SelectSchool,
                      school.search_text, school.show_all_cols)
      [] tab = 4 ->
           {ReportBuilder(csv_columns,
                          [rendered |-> TRUE, sel |-> report.sel, out |-> NoReport])}

\* a click on tab button idx: the run sets active_tab and draws that view
ClickTab(idx) ==
    /\ active_tab # NoTab
    /\ idx \in 0..4
    /\ \E v \in Rerun(idx) : Draw(idx, v)

\* the Home year selector is changed
HomeSelectYear(y) ==
    /\ active_tab = 0
    /\ y \in Range(HomeYearOptions)
    /\ \E v \in HomeRun(data, csv_columns, TOTAL_ENROLLMENT, y) : Draw(0, v)

\* the District year selector is changed
DistrictSelectYear(y) ==
    /\ active_tab = 1
    /\ y \in Range(available_years)
    /\ \E v \in DistrictRun(data, y, district.selected_district) : Draw(1, v)

\* the District selector is changed
DistrictSelectDistrict(name) ==
    /\ active_tab = 1
    /\ name \in districts_list(data) \cup {SelectDistrict}
    /\ \E v \in DistrictRun(data, district.district_year, name) : Draw(1, v)

\* a selector of the Block view is changed: the year, the district or the block
BlockSelect(y, d, b) ==
    /\ active_tab = 2
    /\ ~block.crashed
    /\ \E v \in BlockRuns(data, FEMALE_VALUE, MALE_VALUE, y, d, b) : Draw(2, v)

BlockSelectYear(y) ==
    /\ y \in Range(HomeYearOptions)
    /\ BlockSelect(y, block.block_selected_district, block.block_selected_block)

BlockSelectDistrict(d) ==
    /\ d \in DistinctValues(data, ColDistrict) \cup {Select}
    /\ BlockSelect(block.block_year, d, block.block_selected_block)

BlockSelectBlock(b) ==
    /\ b \in DistinctValues(data, ColBlock) \cup {Select}
    /\ block.block_selected_district # Select
    /\ BlockSelect(block.block_year, block.block_selected_district, b)

\* a selector of the School view is changed
SchoolSelect(y, d, b, n) ==
    /\ active_tab = 3
    /\ \E v \in SchoolRuns(data, csv_columns, FEMALE_VALUE, MALE_VALUE, y, d, b,
                           n, school.search_text, school.show_all_cols) :
          Draw(3, v)

SchoolSelectYear(y) ==
    /\ y \in Range(HomeYearOptions)
    /\ SchoolSelect(y, school.school_selected_district,
                    school.school_selected_block, school.selected_school)

SchoolSelectDistrict(d) ==
    /\ d \in DistinctValues(data, ColDistrict) \cup {All}
    /\ SchoolSelect(school.school_year, d, school.school_selected_block,
                    school.selected_school)

SchoolSelectBlock(b) ==
    /\ b \in DistinctValues(data, ColBlock) \cup {All}
    /\ ~school.crashed
    /\ SchoolSelect(school.school_year, school.school_selected_district, b,
                    school.selected_school)

SchoolSelectSchool(n) ==
    /\ n \in DistinctValues(data, ColSchool) \cup {SelectSchool}
    /\ ~school.crashed
    /\ SchoolSelect(school.school_year, school.school_selected_district,
                    school.school_selected_block, n)

\* the search box or the 'Show All Columns' box of the records table is
\* changed: both are drawn only under the metrics of a selected school
SchoolTableWidgets(search_text, show_all_cols) ==
    /\ active_tab = 3
    /\ school.detail = "shown"
    /\ school.table # "unavailable"
    /\ \E v \in SchoolRuns(data, csv_columns, FEMALE_VALUE, MALE_VALUE,
                           school.school_year, school.school_selected_district,
                           school.school_selected_block, school.selected_school,
                           search_text, show_all_cols) :
          Draw(3, v)

SchoolSearch(search_text) ==
    /\ search_text \in SearchTexts
    /\ SchoolTableWidgets(search_text, school.show_all_cols)

SchoolShowAll(show_all_cols) ==
    /\ show_all_cols \in BOOLEAN
    /\ SchoolTableWidgets(school.search_text, show_all_cols)

\* a multi-select of the report builder is changed: the run draws the
\* builder with no report (the Generate button was not clicked)
ReportPick(field, picked) ==
    /\ active_tab = 4
    /\ field \in ReportFields
    /\ picked \in IF field = "columns" THEN ColumnPicks
                  ELSE Picks(ReportOptions(data, FEMALE_VALUE, MALE_VALUE)[field])
    /\ Edited([report.sel EXCEPT ![field] = picked]) <= MaxEdited
    /\ report.rendered
    /\ Draw(4, [rendered |-> TRUE,
                sel |-> [report.sel EXCEPT ![field] = picked],
                out |-> NoReport])

\* a click on 'Generate Custom Report'
ReportGenerate ==
    /\ active_tab = 4
    /\ report.rendered
    /\ Draw(4, [rendered |-> TRUE, sel |-> report.sel,
                out |-> GenerateReport(data, csv_columns, FEMALE_VALUE,
                                       MALE_VALUE, report.sel)])

Next ==
    \/ Startup
    \/ \E idx \in 0..4 : ClickTab(idx)
    \/ \E y \in Range(HomeYearOptions) : HomeSelectYear(y)
    \/ \E y \in Range(available_years) : DistrictSelectYear(y)
    \/ \E d \in districts_list(data) \cup {SelectDistrict} : DistrictSelectDistrict(d)
    \/ \E y \in Range(HomeYearOptions) : BlockSelectYear(y)
    \/ \E d \in DistinctValues(data, ColDistrict) \cup {Select} : BlockSelectDistrict(d)
    \/ \E b \in DistinctValues(data, ColBlock) \cup {Select} : BlockSelectBlock(b)
    \/ \E y \in Range(HomeYearOptions) : SchoolSelectYear(y)
    \/ \E d \in DistinctValues(data, ColDistrict) \cup {All} : SchoolSelectDistrict(d)
    \/ \E b \in DistinctValues(data, ColBlock) \cup {All} : SchoolSelectBlock(b)
    \/ \E n \in DistinctValues(data, ColSchool) \cup {SelectSchool} : SchoolSelectSchool(n)
    \/ \E f \in ReportFields :
          \E picked \in IF f = "columns" THEN ColumnPicks
                        ELSE Picks(ReportOptions(data, FEMALE_VALUE, MALE_VALUE)[f]) :
              ReportPick(f, picked)
    \/ ReportGenerate

Spec == Init /\ [][Next]_vars

\* every view and every widget on the files of at most one record
InitTabs == Opened({d \in Datasets : Len(d) <= 1})

SpecTabs == InitTabs /\ [][Next]_vars

\* the first run on the files that exercise the gender detection
InitGender == Opened(GenderDatasets)

SpecGender == InitGender /\ [][Startup]_vars

\* the enrollments get_total_enrollment() may compute from df_edu
Enrollments == {0, 40}

\* the Home, District and Block views on the ranking files
InitRank == Session({TRUE}, {CsvColumns}, RankDatasets, Enrollments)

NextRank ==
    \/ Startup
    \/ \E idx \in 0..2 : ClickTab(idx)
    \/ \E y \in Range(HomeYearOptions) : HomeSelectYear(y)
    \/ \E y \in Range(available_years) : DistrictSelectYear(y)
    \/ \E d \in districts_list(data) \cup {SelectDistrict} : DistrictSelectDistrict(d)
    \/ \E y \in Range(HomeYearOptions) : BlockSelectYear(y)
    \/ \E d \in DistinctValues(data, ColDistrict) \cup {Select} : BlockSelectDistrict(d)
    \/ \E b \in DistinctValues(data, ColBlock) \cup {Select} : BlockSelectBlock(b)

SpecRank == InitRank /\ [][NextRank]_vars

\* the runs of a session of a process that starts with or without the file
InitAcquire == Session(BOOLEAN, {CsvColumns}, Datasets, {FallbackEnrollment})

NextAcquire ==
    \/ Startup
    \/ \E y \in Range(HomeYearOptions) : HomeSelectYear(y)

SpecAcquire == InitAcquire /\ [][NextAcquire]_vars

\* headers that lack a column the views read or the report may select
Schemas ==
    {CsvColumns \ missing :
        missing \in {{}, {ColGender}, {ColBlock}, {ColCategory},
                     {"Student Name"}, {"Student Name", "Father Name"}}}

\* the Home view and the report builder on files with such headers
InitSchema == Session({TRUE}, Schemas, Datasets, {FallbackEnrollment})

NextSchema ==
    \/ Startup
    \/ \E idx \in {0, 4} : ClickTab(idx)
    \/ \E y \in Range(HomeYearOptions) : HomeSelectYear(y)
    \/ \E picked \in ColumnPicks : ReportPick("columns", picked)
    \/ ReportGenerate

SpecSchema == InitSchema /\ [][NextSchema]_vars

\* the file of n rows that alternate between a girl of Agra and a boy of
\* Lucknow
ExportFile(n) ==
    [i \in 1..n |->
        IF i % 2 = 1
        THEN Row(Y2324, Agra, Str("Bah"), Str("PS Bah"), Str("F"), Primary,
                 Str("Primary"), Str("Government"))
        ELSE Row(Y2324, Lucknow, Str("Mal"), Str("UPS Mal"), Str("M"),
                 UpperPrimary, Str("Upper Primary"), Str("Private"))]

\* files around the length of the preview, and short ones
ExportDatasets ==
    {ExportFile(n) : n \in (0..2) \cup ((PreviewLimit - 1)..MaxReportRows)}

\* the report builder on the files that are longer than the preview
InitExport == Opened(ExportDatasets)

NextExport ==
    \/ Startup
    \/ ClickTab(4)
    \/ \E f \in ReportFields :
          \E picked \in IF f = "columns" THEN ColumnPicks
                        ELSE Picks(ReportOptions(data, FEMALE_VALUE, MALE_VALUE)[f]) :
              ReportPick(f, picked)
    \/ ReportGenerate

SpecExport == InitExport /\ [][NextExport]_vars

\* the Block view and the School view with its search box on the files of
\* schools
InitSchool == Opened(SchoolDatasets)

NextSchool ==
    \/ Startup
    \/ \E idx \in {2, 3} : ClickTab(idx)
    \/ \E y \in Range(HomeYearOptions) : BlockSelectYear(y)
    \/ \E d \in DistinctValues(data, ColDistrict) \cup {Select} : BlockSelectDistrict(d)
    \/ \E b \in DistinctValues(data, ColBlock) \cup {Select} : BlockSelectBlock(b)
    \/ \E y \in Range(HomeYearOptions) : SchoolSelectYear(y)
    \/ \E d \in DistinctValues(data, ColDistrict) \cup {All} : SchoolSelectDistrict(d)
    \/ \E b \in DistinctValues(data, ColBlock) \cup {All} : SchoolSelectBlock(b)
    \/ \E n \in DistinctValues(data, ColSchool) \cup {SelectSchool} : SchoolSelectSchool(n)
    \/ \E search_text \in SearchTexts : SchoolSearch(search_text)
    \/ \E show_all_cols \in BOOLEAN : SchoolShowAll(show_all_cols)

SpecSchool == InitSchool /\ [][NextSchool]_vars

(***************************************************************************)
(* Properties.                                                             *)
(***************************************************************************)
\* text holds part at some position
Contains(text, part) ==
    \E i \in 1..(Len(text) - Len(part) + 1) :
        SubSeq(text, i, i + Len(part) - 1) = part

\* the rows whose column holds one of the values, in file order
RowsWith(rows, col, values) == SelectSeq(rows, LAMBDA r : r[col] \in values)

CountGender(rows, g) == Len(RowsWith(rows, ColGender, {g}))

\* the report fields that have an "All" option, and the column of each field
AllFields == {"districts", "gender", "edu_level", "category", "management"}

FilterFields == AllFields \cup {"years"}

FieldColumn ==
    [f \in FilterFields |->
        CASE f = "years" -> ColYear
          [] f = "districts" -> ColDistrict
          [] f = "gender" -> ColGender
          [] f = "edu_level" -> ColLevel
          [] f = "category" -> ColCategory
          [] f = "management" -> ColManagement]

\* the field is an active constraint of the selection
Active(sel, f) ==
    IF f = "years" THEN sel.years # <<>>
    ELSE sel[f] # <<>> /\ All \notin Range(sel[f])

\* the row satisfies every active constraint of the selection, by value
Satisfies(row, sel) ==
    \A f \in FilterFields : Active(sel, f) => row[FieldColumn[f]] \in Range(sel[f])

Generated == report.out.generated # "none"

\* C1: the records of a generated custom report are exactly the records of
\* the file that satisfy every active field constraint (the field's value is
\* one of the selected values), in file order: none added, doubled or dropped.
C1_ReportIsExactSubset ==
    Generated =>
        /\ report.out.generated # "error"
        /\ report.out.report_df =
               SelectSeq(data, LAMBDA r : Satisfies(r, report.sel))

\* the conditions list holds a condition on the column
HasCondition(conditions, col) ==
    \E i \in DOMAIN conditions : SubSeq(conditions[i], 1, 4) = <<DQ, col, DQ, KwIn>>

\* C2: a field with an "All" option contributes a condition to the report
\* query if and only if its multi-select is non-empty and does not hold
\* "All", and no condition compares anything with the literal 'All'.
C2_ConditionIffConcreteSelection ==
    Generated =>
        /\ \A f \in AllFields :
              HasCondition(report.out.conditions, FieldColumn[f])
              <=> (report.sel[f] # <<>> /\ All \notin Range(report.sel[f]))
        /\ \A i \in DOMAIN report.out.conditions :
              ~Contains(report.out.conditions[i], <<Q>> \o All \o <<Q>>)

\* a report was generated with "All" picked together with a district: only
\* the year contributes a condition
C2_AllWithConcreteValue ==
    /\ report.out.generated = "report"
    /\ Len(report.sel.districts) = 2
    /\ All \in Range(report.sel.districts)
    /\ Len(report.out.conditions) = 1
    /\ data # <<>>

\* C3: on the Home view with the year selector at "All", no query of the
\* run constrains "Academic Year" to equal the literal 'All'.
C3_HomeAllYearsUnconstrained ==
    (home.rendered /\ home.selected_year = All) =>
        \A i \in DOMAIN home.year_conditions :
            ~Contains(home.year_conditions[i], EqCondition(ColYear, All))

\* the rows of the district in the year, by value
DistrictRows ==
    RowsWith(RowsWith(data, ColDistrict, {district.selected_district}),
             ColYear, {district.district_year})

\* C4: on the District view, a selected (district, year) that matches no
\* record renders the analysis with every figure 0 and an empty block
\* ranking, and does not end in the error branch.
C4_DistrictZeroMatchRendersZeros ==
    (/\ district.rendered
     /\ district.selected_district # SelectDistrict
     /\ DistrictRows = <<>>) =>
        /\ district.analysis = "shown"
        /\ district.total_dropouts = 0
        /\ district.female_dropouts = 0
        /\ district.male_dropouts = 0
        /\ district.total_blocks = 0
        /\ district.total_schools = 0
        /\ district.block_data = <<>>

\* the Home view is drawn for a year that no record of the file has
HomeZeroMatchYear ==
    /\ home.rendered
    /\ home.selected_year # All
    /\ RowsWith(data, ColYear, {home.selected_year}) = <<>>

\* C5: on the Home view, a year that matches no record gives total, girls,
\* boys and the four level counts 0, empty best and worst lists and 'No
\* data available' for the top-10 chart; the facts block does not raise.
C5_HomeZeroMatchYearRendersZeros ==
    HomeZeroMatchYear =>
        /\ ~home.facts_error
        /\ home.total_dropouts = 0
        /\ home.total_girls = 0
        /\ home.total_boys = 0
        /\ home.edu_levels = ZeroLevels
        /\ ~home.rank_error
        /\ home.best_districts = <<>>
        /\ home.worst_districts = <<>>
        /\ home.top_chart = "no_data"

\* the file has records, none of them of the selected year 2024-25
C5_ZeroMatchYearOnNonEmptyFile ==
    /\ HomeZeroMatchYear
    /\ home.selected_year = Y2425
    /\ data # <<>>
    /\ home.top_chart = "no_data"

\* the rows the Home facts are about
HomeRows ==
    IF home.selected_year = All THEN data
    ELSE RowsWith(data, ColYear, {home.selected_year})

\* the rows the Block analysis is about
BlockRows ==
    LET d == RowsWith(data, ColDistrict, {block.block_selected_district})
        b == RowsWith(d, ColBlock, {block.block_selected_block})
    IN IF block.block_year = All THEN b
       ELSE RowsWith(b, ColYear, {block.block_year})

\* C6: every view's girls and boys figures count the records whose Gender
\* is the detected female literal and the detected male literal.
C6_ViewsCountDetectedLiterals ==
    /\ (home.rendered /\ ~home.facts_error) =>
          /\ home.total_girls = CountGender(HomeRows, FEMALE_VALUE)
          /\ home.total_boys = CountGender(HomeRows, MALE_VALUE)
    /\ district.analysis = "shown" =>
          /\ district.female_dropouts = CountGender(DistrictRows, FEMALE_VALUE)
          /\ district.male_dropouts = CountGender(DistrictRows, MALE_VALUE)
    /\ block.analysis = "shown" =>
          /\ block.girls_count = CountGender(BlockRows, FEMALE_VALUE)
          /\ block.boys_count = CountGender(BlockRows, MALE_VALUE)
    /\ school.detail = "shown" =>
          /\ school.girls_dropouts = CountGender(school.school_df, FEMALE_VALUE)
          /\ school.boys_dropouts = CountGender(school.school_df, MALE_VALUE)
    /\ (report.out.generated = "report" /\ ColGender \in Range(report.out.columns)) =>
          /\ report.out.girls_count = CountGender(report.out.report_df, FEMALE_VALUE)
          /\ report.out.boys_count = CountGender(report.out.report_df, MALE_VALUE)

\* the gender literals of the file whose upper-cased form is one of names
Present(names) ==
    {g \in DistinctValues(data, ColGender) : Upper(g) \in names}

\* C7: the detected female value is a gender literal of the file whose
\* upper-cased form is FEMALE, F or GIRL, or 'FEMALE' when the file has
\* none; the male value likewise with MALE, M, BOY and 'MALE'; a file whose
\* literals are exactly F and M gives ("F", "M").
C7_DetectionFindsPresentLiteral ==
    active_tab # NoTab =>
        /\ IF Present(FemaleNames) # {} THEN FEMALE_VALUE \in Present(FemaleNames)
           ELSE FEMALE_VALUE = Str("FEMALE")
        /\ IF Present(MaleNames) # {} THEN MALE_VALUE \in Present(MaleNames)
           ELSE MALE_VALUE = Str("MALE")
        /\ DistinctValues(data, ColGender) = {Str("F"), Str("M")} =>
              FEMALE_VALUE = Str("F") /\ MALE_VALUE = Str("M")

\* the file, the view and every selection of the view
Selections ==
    <<data, active_tab, home.selected_year,
      district.district_year, district.selected_district,
      block.block_year, block.block_selected_district, block.block_selected_block,
      school.school_year, school.school_selected_district,
      school.school_selected_block, school.selected_school,
      report.sel, Generated>>

\* C8: what a run shows is a function of the file and the selections: a run
\* that ends with the selections of the run before shows the same records
\* and aggregates.
C8_SameSelectionsSameResults ==
    [][Selections' = Selections =>
         <<home, district, block, school, report>>'
         = <<home, district, block, school, report>>]_vars

\* no field of the report is an active constraint
Unconstrained == \A f \in FilterFields : ~Active(report.sel, f)

\* C9: a custom report generated with no field constrained holds every
\* record of the file.
C9_NoConstraintReturnsEverything ==
    (Generated /\ Unconstrained) =>
        /\ report.out.generated # "error"
        /\ report.out.report_df = data
        /\ report.out.generated = "report" => report.out.total_records = Len(data)

\* the year selection was cleared and a report on a non-empty file generated
C9_EmptyYearSelection ==
    /\ report.out.generated = "report"
    /\ Unconstrained
    /\ report.sel.years = <<>>
    /\ data # <<>>
    /\ report.out.total_records = Len(data)

\* the number of records a report with this selection holds
Matches(sel) ==
    Len(GenerateReport(data, csv_columns, FEMALE_VALUE, MALE_VALUE, sel).report_df)

\* the number of records school_data_query answers with under these filters
SchoolMatches(year, d, b) ==
    Len(Query(data, SchoolDataWhere(school.selected_school, year, d, b)).rows)

\* C10: adding a constraint never increases the match count: a generated
\* report holds at most as many records as the report with any one of its
\* fields left unconstrained, and the records of a selected school are at
\* most as many as with its year, district or block filter at "All".
C10_ConstraintNeverAddsRecords ==
    /\ Generated =>
          \A f \in FilterFields :
              Len(report.out.report_df)
              <= Matches([report.sel EXCEPT ![f] = <<>>])
    /\ school.detail \in {"shown", "no_data"} =>
          /\ Len(school.school_df)
             <= SchoolMatches(All, school.school_selected_district,
                              school.school_selected_block)
          /\ Len(school.school_df)
             <= SchoolMatches(school.school_year, All, school.school_selected_block)
          /\ Len(school.school_df)
             <= SchoolMatches(school.school_year, school.school_selected_district,
                              All)


\* the Home run reached the sections that follow the rate cards
HomeSectionsDrawn == home.rendered /\ ~home.crashed

\* C11: calculate_dropout_rate returns 0 and does not raise for every
\* dropouts value when total_enrolled is 0 or negative; on the Home view the
\* ranking raises nothing, with zero districts too, and every ranked district
\* carries the rate of its count over the per-district enrollment, which is
\* 0 when the enrollment is 0
C11_RateNeverDividesByZero ==
    /\ \A dropouts \in 0..3 : \A num \in -2..0 : \A den \in 1..2 :
          calculate_dropout_rate(dropouts, Ratio(num, den))
              = [raised |-> FALSE, value |-> 0]
    /\ HomeSectionsDrawn =>
          /\ ~home.rank_error
          /\ \A i \in DOMAIN home.all_districts :
                /\ ~home.all_districts[i].rate.raised
                /\ home.all_districts[i].rate.value =
                      IF TOTAL_ENROLLMENT > 0
                      THEN RoundHalfEven(home.all_districts[i].count
                                         * Len(home.all_districts) * 10000,
                                         TOTAL_ENROLLMENT)
                      ELSE 0
          /\ Range(home.best_districts) \cup Range(home.worst_districts)
                \subseteq Range(home.all_districts)

\* districts are ranked while the enrollment is 0
C11_RankedWithZeroEnrollment ==
    /\ HomeSectionsDrawn
    /\ TOTAL_ENROLLMENT = 0
    /\ Len(home.best_districts) = RankN
    /\ home.best_districts[1].count > 0

\* the sum of a field of the entries of a grouped answer
RECURSIVE SumOf(_, _)
SumOf(entries, field) ==
    IF entries = <<>> THEN 0
    ELSE entries[1][field] + SumOf(Tail(entries), field)

\* the rows of the file whose column col holds key, among those of the year
RowsOfGroup(col, key, year) ==
    {i \in DOMAIN data : /\ data[i][col] = key
                         /\ year = All \/ data[i][ColYear] = year}

\* the entries of a grouped answer are the groups of these rows by col: one
\* entry per value, with the number of rows that hold it
Partitions(entries, col, rows) ==
    /\ \A i, j \in DOMAIN entries : entries[i].key = entries[j].key => i = j
    /\ {entries[i].key : i \in DOMAIN entries} = {data[r][col] : r \in rows}
    /\ \A i \in DOMAIN entries :
          entries[i].count
              = Cardinality({r \in rows : data[r][col] = entries[i].key})

\* the per-district counts of the Home ranking partition the rows of the
\* year selection and sum to the total of the cards
HomeCountsPartition ==
    HomeSectionsDrawn /\ ~home.rank_error =>
        LET rows == {i \in DOMAIN data :
                        \/ home.selected_year = All
                        \/ data[i][ColYear] = home.selected_year}
        IN /\ Partitions(home.all_districts, ColDistrict, rows)
           /\ SumOf(home.all_districts, "count") = Cardinality(rows)
           /\ ~home.facts_error =>
                 SumOf(home.all_districts, "count") = home.total_dropouts

\* the per-block counts of the District view partition the rows of the
\* district and year and sum to the district's total
DistrictCountsPartition ==
    district.rendered /\ district.analysis = "shown" =>
        LET rows == RowsOfGroup(ColDistrict, district.selected_district,
                                district.district_year)
        IN /\ Partitions(district.block_data, ColBlock, rows)
           /\ SumOf(district.block_data, "count") = district.total_dropouts
           /\ district.total_dropouts = Cardinality(rows)

\* C12 as stated: the group counts partition the filtered subset (Home
\* districts per year selection, District blocks per district and year) and
\* the 'Dropout %' values of the block table sum to 100
C12_PercentagesSumTo100 ==
    /\ HomeCountsPartition
    /\ DistrictCountsPartition
    /\ district.rendered /\ district.analysis = "shown"
       /\ district.total_dropouts # 0 =>
          SumOf(district.block_table, "dropout_pct") = 10000

\* C12, amended: the group counts partition the filtered subset, and the
\* 'Dropout %' values, each rounded to two decimals, sum to 100 up to half
\* a hundredth per block
C12_GroupCountsPartition ==
    /\ HomeCountsPartition
    /\ DistrictCountsPartition
    /\ district.rendered /\ district.analysis = "shown"
       /\ district.total_dropouts # 0 =>
          LET off == SumOf(district.block_table, "dropout_pct") - 10000
          IN /\ 2 * off <= Len(district.block_table)
             /\ 2 * (0 - off) <= Len(district.block_table)

\* a district of several blocks whose rounded percentages do not sum to 100
C12_RoundedPercentages ==
    /\ district.rendered /\ district.analysis = "shown"
    /\ Len(district.block_table) > 1
    /\ SumOf(district.block_table, "dropout_pct") # 10000

\* result is a top-N (desc) or bottom-N (~desc) of the groups by col of these
\* rows of the file: min(N, number of groups) groups with their counts, in
\* order, and no group left out beats a group that is in
IsTopN(result, col, rows, N, desc) ==
    LET keys == {data[r][col] : r \in rows}
        Count(k) == Cardinality({r \in rows : data[r][col] = k})
        Before(a, b) == IF desc THEN a >= b ELSE a <= b
    IN /\ Len(result) = Min(N, Cardinality(keys))
       /\ \A i, j \in DOMAIN result : result[i].key = result[j].key => i = j
       /\ \A i \in DOMAIN result :
             /\ result[i].key \in keys
             /\ result[i].count = Count(result[i].key)
       /\ \A i, j \in DOMAIN result :
             i < j => Before(result[i].count, result[j].count)
       /\ \A k \in keys \ {result[i].key : i \in DOMAIN result} :
             \A i \in DOMAIN result : Before(result[i].count, Count(k))

\* the rows the Block view's school lists are drawn from
BlockSchoolRows ==
    {i \in DOMAIN data :
        /\ data[i][ColDistrict] = block.block_selected_district
        /\ data[i][ColBlock] = block.block_selected_block
        /\ block.block_year = All \/ data[i][ColYear] = block.block_year
        /\ data[i][ColSchool] # <<>>}

\* C13: the top-10 districts and the top-10 school categories of the Home
\* view and the top-5 and bottom-5 schools of a block hold exactly
\* min(N, number of groups) groups, in order of count, and no group left out
\* has a larger (top) or smaller (bottom) count than one listed; on the
\* 5-record example the first group by district is ("Agra", 3)
C13_TopNIsTheNExtremeGroups ==
    /\ HomeSectionsDrawn /\ home.top_chart \in {"chart", "no_data"} =>
          IsTopN(home.district_counts, ColDistrict,
                 {i \in DOMAIN data : \/ home.selected_year = All
                                      \/ data[i][ColYear] = home.selected_year},
                 TopN, TRUE)
    /\ HomeSectionsDrawn /\ home.category_chart = "chart" =>
          IsTopN(home.category_data, ColCategory,
                 {i \in DOMAIN data : data[i][ColYear] = home.selected_year},
                 TopN, TRUE)
    /\ block.rendered /\ block.analysis = "shown" =>
          /\ IsTopN(block.top_schools, ColSchool, BlockSchoolRows,
                    SchoolTopN, TRUE)
          /\ IsTopN(block.bottom_schools, ColSchool, BlockSchoolRows,
                    SchoolTopN, FALSE)
    /\ data = Example5 /\ HomeSectionsDrawn /\ home.selected_year # Y2425 =>
          HeadN(home.district_counts, 1) = <<[key |-> Agra, count |-> 3]>>

\* the top-10 chart of a file of more than ten districts
C13_MoreDistrictsThanTopN ==
    /\ HomeSectionsDrawn
    /\ Len(home.district_counts) = TopN
    /\ CountDistinct(data, ColDistrict) > TopN

\* the first row of the file that holds key in column col
FirstRow(col, key) ==
    CHOOSE i \in DOMAIN data :
        /\ data[i][col] = key
        /\ \A j \in DOMAIN data : data[j][col] = key => i <= j

\* groups of equal count stand in the order the file first names them
Stable(result, col) ==
    \A i, j \in DOMAIN result :
        i < j /\ result[i].count = result[j].count =>
            FirstRow(col, result[i].key) < FirstRow(col, result[j].key)

\* C14: in every grouped-and-ordered result, groups of equal count appear in
\* first-encountered order of the file, so that the order and the membership
\* of the rankings and of the truncated lists are determined by the file
C14_TiesInFirstEncounteredOrder ==
    /\ HomeSectionsDrawn =>
          /\ Stable(home.all_districts, ColDistrict)
          /\ Stable(home.best_districts, ColDistrict)
          /\ Stable(Reverse(home.worst_districts), ColDistrict)
          /\ Stable(home.district_counts, ColDistrict)
          /\ Stable(home.category_data, ColCategory)
    /\ district.rendered => Stable(district.block_data, ColBlock)
    /\ block.rendered =>
          /\ Stable(block.top_schools, ColSchool)
          /\ Stable(block.bottom_schools, ColSchool)

\* the keys of a list of groups
Keys(result) == {result[i].key : i \in DOMAIN result}

\* best holds the min(K, n) groups of lowest count in ascending order, worst
\* the min(K, n) groups of highest count in descending order; fewer than
\* 2 * K groups are shared between the two, no group leaves both empty
IsBestWorst(best, worst, col, rows, K) ==
    LET n == Cardinality({data[r][col] : r \in rows})
    IN /\ IsTopN(best, col, rows, K, FALSE)
       /\ IsTopN(worst, col, rows, K, TRUE)
       /\ n > 0 /\ n < 2 * K => Keys(best) \cap Keys(worst) # {}
       /\ n = 0 => best = <<>> /\ worst = <<>>

\* the Home half of the claim on the best and worst lists
HomeBestAndWorst ==
    HomeSectionsDrawn =>
        /\ ~home.rank_error
        /\ IsBestWorst(home.best_districts, home.worst_districts, ColDistrict,
                       {i \in DOMAIN data :
                           \/ home.selected_year = All
                           \/ data[i][ColYear] = home.selected_year}, RankN)

\* C15: the Home ranking returns as best the min(3, n) districts of lowest
\* count, ascending, and as worst the min(3, n) of highest count, descending;
\* the lists overlap when n < 6, are empty when n = 0, and no error is raised;
\* the same holds for the top-5 / bottom-5 blocks of the District view
C15_BestAndWorstLists ==
    /\ HomeBestAndWorst
    /\ district.rendered /\ district.selected_district # SelectDistrict =>
          /\ district.analysis # "error"
          /\ IsBestWorst(district.bottom_5, district.top_5, ColBlock,
                         RowsOfGroup(ColDistrict, district.selected_district,
                                     district.district_year), BlockTopN)

\* no view is drawn and no session state is set
NothingDrawn ==
    /\ active_tab = NoTab
    /\ ~home.rendered /\ ~district.rendered /\ ~block.rendered
    /\ ~school.rendered /\ ~report.rendered

\* C16: in every run, a file that is absent when the run starts is downloaded
\* exactly once in that run, and when it is still absent afterwards the run
\* stops with nothing drawn; a file that is present is never downloaded
C16_OneAttemptPerRunWithoutFile ==
    [][/\ ~csv_exists => downloaded'
       /\ ~csv_exists' => stopped' /\ NothingDrawn'
       /\ csv_exists => ~downloaded' /\ ~stopped']_vars

\* C17: after a failed acquisition, every later run that starts with the
\* file still missing performs a new download attempt
C17_EveryLaterRunDownloadsAgain ==
    [][download_cache # "none" /\ ~csv_exists => downloaded']_vars

\* the columns the queries of the 'Dropout Facts' block name
FactsColumns ==
    {ColGender, ColLevel, ColBlock, ColDistrict} \cup YearColumn(home.selected_year)

\* the Home sections from the gender chart on, from the category chart on
\* and from the rankings on are not drawn
NoneFromGender ==
    /\ home.gender_chart = "none" /\ home.level_chart = "none"
    /\ home.category_chart = "none" /\ home.top_chart = "none"
    /\ home.all_districts = <<>>

NoneFromCategory ==
    /\ home.category_chart = "none" /\ home.top_chart = "none"
    /\ home.all_districts = <<>>

NoneFromRanking == home.top_chart = "none" /\ home.all_districts = <<>>

\* C18: once a section of the Home view fails on a column the file does not
\* have, no later section of the view is drawn in that run
C18_SchemaErrorEndsTheView ==
    home.rendered =>
        /\ ~Binds(csv_columns, FactsColumns) => NoneFromGender
        /\ ~Binds(csv_columns, {ColGender, ColYear}) => NoneFromCategory
        /\ ~Binds(csv_columns, {ColCategory, ColYear}) => NoneFromRanking

\* the fields a report needs that the file does not have: the columns
\* selected for it and the columns of its active filters
MissingFields ==
    (Range(report.sel.columns)
     \cup {FieldColumn[f] : f \in {g \in FilterFields : Active(report.sel, g)}})
    \ csv_columns

\* C19: when fields the report needs are absent from the file, the run shows
\* one diagnostic that names exactly the missing fields and evaluates no
\* query; it does not go on with the fields that exist
C19_MissingFieldsAreEnumerated ==
    Generated /\ MissingFields # {} =>
        /\ report.out.generated # "report"
        /\ report.out.named = MissingFields
        /\ report.out.report_df = <<>>

\* the records a table of cells (a header line, then one line per record)
\* holds, read back under the columns of its header
FromTable(cells) ==
    LET header == cells[1]
        At(c) == CHOOSE k \in DOMAIN header : header[k] = c
    IN [i \in 1..(Len(cells) - 1) |->
           [c \in Range(header) \cap Columns |-> cells[i + 1][At(c)]]]

\* the records of the file that satisfy the selections, in file order,
\* restricted to the selected columns
SelectedRecords ==
    LET rows == SelectSeq(data, LAMBDA r : Satisfies(r, report.sel))
    IN [i \in DOMAIN rows |->
           [c \in Range(report.sel.columns) \cap Columns |-> rows[i][c]]]

SchoolRecords ==
    SelectSeq(data, LAMBDA r :
        /\ r[ColSchool] = school.selected_school
        /\ school.school_year = All \/ r[ColYear] = school.school_year
        /\ school.school_selected_district = All
           \/ r[ColDistrict] = school.school_selected_district
        /\ school.school_selected_block = All
           \/ r[ColBlock] = school.school_selected_block)

\* C21: selecting a value that occurs in a categorical field, whatever
\* characters it holds, returns exactly the records whose field equals it:
\* the School view with a district, block or school selected and the report
\* with one district selected neither raise nor show other records.
C21_SelectedValueMatchesExactly ==
    /\ school.rendered => ~school.crashed
    /\ (school.rendered /\ school.selected_school # SelectSchool) =>
          /\ school.detail \in {"shown", "no_data"}
          /\ school.school_df = SchoolRecords
    /\ (/\ Generated
        /\ Len(report.sel.districts) = 1
        /\ All \notin Range(report.sel.districts)) =>
          /\ report.out.generated # "error"
          /\ report.out.report_df =
                 SelectSeq(data, LAMBDA r :
                     /\ r[ColDistrict] = report.sel.districts[1]
                     /\ Satisfies(r, report.sel))

\* the report of the same file and filter selections with these columns
\* selected for display
ReportWithColumns(cols) ==
    GenerateReport(data, csv_columns, FEMALE_VALUE, MALE_VALUE,
                   [report.sel EXCEPT !.columns = cols])

\* C22: the Girls, Boys and Districts figures of a report's summary are the
\* same for every non-empty choice of the columns selected for display, the
\* file and the filter selections being the same.
C22_SummaryIgnoresSelectedColumns ==
    report.out.generated = "report" =>
        \A cols \in ColumnPicks \ {<<>>} :
            /\ ReportWithColumns(cols).generated = "report"
            /\ ReportWithColumns(cols).girls_count = report.out.girls_count
            /\ ReportWithColumns(cols).boys_count = report.out.boys_count
            /\ ReportWithColumns(cols).unique_districts
                   = report.out.unique_districts

\* the records of school_df under the columns of the records table
SchoolTableRecords ==
    LET cols == SelectSeq(display_cols(school.show_all_cols),
                          LAMBDA c : c \in csv_columns)
    IN [i \in DOMAIN school.school_df |->
           [c \in Range(cols) \cap Columns |-> school.school_df[i][c]]]

\* s is t with some of its entries left out
RECURSIVE IsSubSeq(_, _)
IsSubSeq(s, t) ==
    IF s = <<>> THEN TRUE
    ELSE IF t = <<>> THEN FALSE
    ELSE IF Head(s) = Head(t) THEN IsSubSeq(Tail(s), Tail(t))
    ELSE IsSubSeq(s, Tail(t))

\* the table and the downloads of a drawn records table agree with the
\* records of the school
SchoolTableAgrees ==
    school.table = "shown" =>
        /\ IsSubSeq(school.display_df, SchoolTableRecords)
        /\ Len(school.display_df) <= Len(school.school_df)
        /\ school.search_text = <<>> => school.display_df = SchoolTableRecords
        /\ FromTable(school.csv) = school.display_df
        /\ FromTable(school.csv_full) = SchoolTableRecords
        /\ Len(FromTable(school.csv_full)) = school.total_dropouts

\* C23: for every search text the records table of a selected school shows
\* a subset of the school's records (all of them when the text is empty),
\* 'Download Filtered Data' holds exactly the displayed records and
\* 'Download All School Data' holds all records of the school.
C23_SearchIsOneMoreConstraint ==
    /\ school.detail = "shown" => school.table = "shown"
    /\ SchoolTableAgrees

\* the views the last run rendered
RenderedViews ==
    {i \in 0..4 : <<home, district, block, school, report>>[i + 1].rendered}

\* a run drew the tab buttons and the views
TabsDrawn == active_tab # NoTab

\* the step is a run in which a tab button other than the active one acted
TabChanged == active_tab # NoTab /\ active_tab' # active_tab

\* C24: active_tab is one of 0..4 (0 in the first run), a click on tab i sets
\* it to i and nothing else changes it, and every run renders exactly one
\* view, the one whose index is active_tab.
C24_OneViewPerRun ==
    /\ [](TabsDrawn => active_tab \in 0..4 /\ RenderedViews = {active_tab})
    /\ [][/\ active_tab = NoTab => active_tab' \in {NoTab, 0}
          /\ \A idx \in 0..4 : ClickTab(idx) => active_tab' = idx
          /\ TabChanged => \E idx \in 0..4 : ClickTab(idx)]_vars

\* a click on the last tab button drew the Downloads view and no other
C24_ClickedLastTab ==
    /\ active_tab = 4
    /\ report.rendered
    /\ ~home.rendered /\ ~district.rendered /\ ~block.rendered
    /\ ~school.rendered

\* the tab buttons the run of this step drew highlighted
Highlighted ==
    LET types == tab_button_types(IF active_tab = NoTab THEN 0 ELSE active_tab,
                                  IF TabChanged THEN active_tab' ELSE NoTab)
    IN {idx \in 0..4 : types[idx] = "primary"}

\* C25: every run, the run of a click on a tab button included, draws
\* exactly one tab button highlighted, the button of the view it renders.
C25_HighlightIsTheRenderedView ==
    [][active_tab' # NoTab => Highlighted = {active_tab'}]_vars

\* the file has a record of this block in this district and year
BlockHasRecords(year, d, b) ==
    \E i \in DOMAIN data :
        /\ data[i][ColDistrict] = d
        /\ data[i][ColBlock] = b
        /\ year = All \/ data[i][ColYear] = year

\* the file has a record of the selected school under the filters of the
\* School view
SchoolListed == SchoolRecords # <<>>

\* C26: a Block analysis is rendered only for a block that has a record of
\* the selected district and year, so its total is positive; a school is
\* rendered only when it is in the list under the current filters, so its
\* records are not empty and 'No data found for selected school' never shows.
C26_CascadingSelectorsNeverEmpty ==
    /\ block.analysis = "shown" =>
          /\ BlockHasRecords(block.block_year, block.block_selected_district,
                             block.block_selected_block)
          /\ block.total_students > 0
    /\ school.detail # "no_data"
    /\ school.detail = "shown" =>
          /\ SchoolListed
          /\ school.school_df # <<>>
          /\ school.total_dropouts > 0

\* C27: the 'Block Rank' r/t of a selected school has 1 <= r <= t, r is the
\* school's position in the ranking of the schools of its block by
\* descending count, and the count the ranking gives the school is the
\* 'Total Dropouts' shown for it.
C27_BlockRankCountsTheShownRecords ==
    school.detail = "shown" =>
        LET r == school.school_rank_in_block
            t == school.total_schools_in_block
            ranking == school.block_ranking_df
        IN /\ 1 <= r /\ r <= t
           /\ t = Len(ranking)
           /\ \A i, j \in DOMAIN ranking :
                 i < j => ranking[i].count >= ranking[j].count
           /\ ranking[r].key = school.selected_school
           /\ ranking[r].count = school.total_dropouts

\* C28: when a query of the Home view's dropout-facts block raises, every
\* name the cards read is assigned, the count cards show zeros and the run
\* does not end with an undefined-variable error.
C28_FactsErrorLeavesCardsDefined ==
    (home.rendered /\ home.facts_error) =>
        /\ home.undefined = {}
        /\ ~home.crashed
        /\ home.total_dropouts = 0
        /\ home.total_girls = 0
        /\ home.total_boys = 0
        /\ home.edu_levels = ZeroLevels

\* girls and boys count disjoint parts of the rows: their sum is at most the
\* number of rows, and equal to it exactly when every row's Gender is one of
\* the two detected literals
GenderSplit(girls, boys, rows) ==
    /\ girls + boys <= Len(rows)
    /\ girls + boys = Len(rows)
       <=> \A i \in DOMAIN rows :
               rows[i][ColGender] \in {FEMALE_VALUE, MALE_VALUE}

\* the four education-level counts sum to at most the total
LevelsWithin(levels, total) ==
    levels[1] + levels[2] + levels[3] + levels[4] <= total

\* the gender and level figures of the Block and School views
BlockAndSchoolSplit ==
    /\ TabsDrawn => FEMALE_VALUE # MALE_VALUE
    /\ block.analysis = "shown" =>
          /\ GenderSplit(block.girls_count, block.boys_count, BlockRows)
          /\ block.total_students = Len(BlockRows)
          /\ LevelsWithin(block.edu_levels, block.total_students)
    /\ school.detail = "shown" =>
          /\ GenderSplit(school.girls_dropouts, school.boys_dropouts,
                         school.school_df)
          /\ school.total_dropouts = Len(school.school_df)
          /\ LevelsWithin(school.edu_levels, school.total_dropouts)

\* C29: the detected female and male literals differ, and on the Block,
\* School and Report views girls + boys is at most the total of the subset,
\* equal to it exactly when every record's Gender is one of the two
\* literals; the four education-level counts sum to at most the total.
C29_GirlsAndBoysWithinTotal ==
    /\ BlockAndSchoolSplit
    /\ report.out.generated = "report" =>
          /\ GenderSplit(report.out.girls_count, report.out.boys_count,
                         report.out.report_df)
          /\ report.out.total_records = Len(report.out.report_df)

(***************************************************************************)
(* The scorecard of the Block view on blocks of thousands of records.      *)
(***************************************************************************)
\* the file of n records of one school of one block
ScoreFile(n) ==
    [i \in 1..n |->
        Row(Y2324, Agra, Str("Bah"), Str("PS Bah"), Str("F"), Primary,
            Str("Primary"), Str("Government"))]

\* the sizes around the three thresholds of overall_score, and small ones
ScoreSizes ==
    (0..2) \cup {999, 1000, 1001, 2999, 3000, 3001, 4999, 5000, MaxScoreRows}

ScoreDatasets == {ScoreFile(n) : n \in ScoreSizes}

InitScore == Opened(ScoreDatasets)

NextScore ==
    \/ Startup
    \/ ClickTab(2)
    \/ \E y \in Range(HomeYearOptions) : BlockSelectYear(y)
    \/ \E d \in DistinctValues(data, ColDistrict) \cup {Select} : BlockSelectDistrict(d)
    \/ \E b \in DistinctValues(data, ColBlock) \cup {Select} : BlockSelectBlock(b)

SpecScore == InitScore /\ [][NextScore]_vars

\* no upper end
Unbounded == -1

\* the legend under the score, "<1000=90 | 1000-3000=70 | 3000-5000=50 |
\* >5000=30", as ranges of whole numbers with both ends included
Legend ==
    {[from |-> 0, to |-> 999, score |-> 90],
     [from |-> 1000, to |-> 3000, score |-> 70],
     [from |-> 3000, to |-> 5000, score |-> 50],
     [from |-> 5001, to |-> Unbounded, score |-> 30]}

\* the scores the legend states for n dropouts
LegendScores(n) ==
    {e.score : e \in {e \in Legend :
                         e.from <= n /\ (e.to = Unbounded \/ n <= e.to)}}

\* C30: on the Block view the overall score is exactly the one score the
\* displayed legend states for the dropout count of the block, and no
\* smaller count has a smaller score.
C30_ScoreIsWhatTheLegendStates ==
    block.analysis = "shown" =>
        /\ LegendScores(block.total_students) = {block.overall_score}
        /\ \A n \in 0..block.total_students :
               overall_score(n) >= block.overall_score

\* the same away from the two counts where the legend's ranges meet
ScoreAwayFromRangeEnds ==
    (block.analysis = "shown" /\ block.total_students \notin {3000, 5000}) =>
        /\ LegendScores(block.total_students) = {block.overall_score}
        /\ \A n \in 0..block.total_students :
               overall_score(n) >= block.overall_score

=============================================================================
